---- MODULE Spec2Model ----
(***************************************************************************)
(* Model of the indexed log substrate of grok (indexed_file crate):       *)
(* the partial line index SaneIndex (indexer/sane_index.rs), the chunk     *)
(* parser that feeds it, and the line iterators and filter built on it.    *)
(*                                                                         *)
(* Indexes are 0-based as in the Rust source; a TLA+ sequence s is read    *)
(* at s[i + 1] for the Rust index i.                                       *)
(***************************************************************************)
EXTENDS Integers, Sequences, FiniteSets, TLC

\* ------------------------------------------------------------------ bounds
\* Largest chunk size of the byte source (the smallest is 2).
MaxChunk == 3
\* How many iterators one run creates over the log.
MaxIters == 2
\* Longest source, in bytes.
MaxLen == 4
\* How many empty chunks / empty ranges one run may insert.
MaxEmpty == 1
\* Highest offset a direct insert call may name.
MaxRange == 3

\* ------------------------------------------------------------- constants
\* usize::MAX; only compared, never used in arithmetic.
IMAX == 2147483647
\* b'\n'
NL == 10
\* any byte that is not a line terminator
CH == 97

Bytes == {NL, CH}

RECURSIVE SeqsUpTo(_, _)
SeqsUpTo(S, n) ==
    IF n = 0 THEN {<<>>}
    ELSE LET shorter == SeqsUpTo(S, n - 1)
         IN  shorter \cup {Append(s, b) : s \in {t \in shorter : Len(t) = n - 1}, b \in S}

Files == SeqsUpTo(Bytes, MaxLen)

\* file[lo..hi) as a byte sequence
Slice(f, lo, hi) == SubSeq(f, lo + 1, hi)

\* ------------------------------------------------------------- Waypoint
Mapped(o) == [tag |-> "Mapped", lo |-> o, hi |-> o]
Unmapped(lo, hi) == [tag |-> "Unmapped", lo |-> lo, hi |-> hi]

is_mapped(w) == w.tag = "Mapped"
cmp_offset(w) == w.lo
end_offset(w) == w.hi
contains(w, offset) ==
    IF is_mapped(w) THEN offset = w.lo
    ELSE w.lo <= offset /\ offset < w.hi

Min(a, b) == IF a < b THEN a ELSE b
Max(a, b) == IF a > b THEN a ELSE b

\* Option<Waypoint>
None == [some |-> FALSE]
Some(w) == [some |-> TRUE, val |-> w]

\* Waypoint::split_at: (part below offset, part at or above offset)
split_at(w, offset) ==
    << IF w.lo < offset THEN Some(Unmapped(w.lo, Min(offset, w.hi))) ELSE None,
       IF w.hi > offset THEN Some(Unmapped(Max(offset, w.lo), w.hi)) ELSE None >>

\* ------------------------------------------------------------ SaneIndex
new_index == << <<Unmapped(0, IMAX)>> >>

value(index, ndx) == index[ndx[1] + 1][ndx[2] + 1]

index_valid(index, ndx) ==
    /\ ndx[1] < Len(index)
    /\ ndx[2] < Len(index[ndx[1] + 1])

index_prev(index, ndx) ==
    IF ndx[2] > 0 THEN Some(<<ndx[1], ndx[2] - 1>>)
    ELSE IF ndx[1] > 0 THEN Some(<<ndx[1] - 1, Len(index[ndx[1]]) - 1>>)
    ELSE None

index_next(index, ndx) ==
    IF ndx[2] + 1 < Len(index[ndx[1] + 1]) THEN Some(<<ndx[1], ndx[2] + 1>>)
    ELSE IF ndx[1] + 1 < Len(index) THEN Some(<<ndx[1] + 1, 0>>)
    ELSE None

\* slice::binary_search over the comparison offsets of ws.  When several
\* elements compare equal the standard library may return any of them, so
\* the result is the set of all answers it can give.
binary_search(ws, offset) ==
    LET hits == {k \in 0..(Len(ws) - 1) : cmp_offset(ws[k + 1]) = offset}
    IN  IF hits # {}
        THEN {[ok |-> TRUE, i |-> k] : k \in hits}
        ELSE {[ok |-> FALSE,
               i |-> Cardinality({k \in 0..(Len(ws) - 1) : cmp_offset(ws[k + 1]) < offset})]}

Firsts(index) == [k \in 1..Len(index) |-> index[k][1]]

\* search without its tail: the index the binary searches chose
search_unadjusted(index, offset, ndx) == ndx

\* the tail of SaneIndex::search, after the binary searches chose ndx
search_adjust(index, offset, ndx) ==
    LET prev == index_prev(index, ndx)
    IN  IF prev.some /\ contains(value(index, prev.val), offset) THEN prev.val
        ELSE IF /\ index_valid(index, ndx)
                /\ offset > cmp_offset(value(index, ndx))
                /\ index_next(index, ndx).some
             THEN index_next(index, ndx).val
        ELSE ndx

\* SaneIndex::search: every IndexIndex the call can return
search(index, offset) ==
    UNION { IF find.ok
            THEN {search_adjust(index, offset, <<find.i, 0>>)}
            ELSE LET i == IF find.i > 0 THEN find.i - 1 ELSE 0
                 IN  { search_adjust(index, offset,
                          IF inr.ok THEN <<i, inr.i>>
                          ELSE IF inr.i = Len(index[i + 1]) THEN <<i + 1, 0>>
                          ELSE <<i, inr.i>>)
                       : inr \in binary_search(index[i + 1], offset) }
          : find \in binary_search(Firsts(index), offset) }

InsertRow(index, i, row) ==
    SubSeq(index, 1, i) \o <<row>> \o SubSeq(index, i + 1, Len(index))

RemoveRow(index, i) ==
    SubSeq(index, 1, i) \o SubSeq(index, i + 2, Len(index))

Panic == [ok |-> FALSE]

\* resolve_gap, lines 143-152: from the waypoint that search found to the
\* waypoint that should be the Unmapped region holding the gap
gap_ndx(index, gap, ndx0) ==
    IF ~index_valid(index, ndx0) THEN ndx0
    ELSE IF is_mapped(value(index, ndx0))
         THEN IF index_next(index, ndx0).some
              THEN index_next(index, ndx0).val ELSE ndx0
    ELSE IF /\ index_prev(index, ndx0).some
            /\ contains(value(index, index_prev(index, ndx0).val), gap.start)
         THEN index_prev(index, ndx0).val
    ELSE ndx0

\* mutant: the end of the gap is not checked against the region
gap_asserts_start_only(index, gap, ndx) ==
    /\ index_valid(index, ndx)
    /\ ~is_mapped(value(index, ndx))
    /\ cmp_offset(value(index, ndx)) <= gap.start
    /\ ndx[2] = 0
    /\ Len(index[ndx[1] + 1]) = 1

\* resolve_gap, lines 153-162: the assertions
gap_asserts(index, gap, ndx) ==
    /\ index_valid(index, ndx)
    /\ ~is_mapped(value(index, ndx))
    /\ end_offset(value(index, ndx)) >= gap.end
    /\ cmp_offset(value(index, ndx)) <= gap.start
    /\ ndx[2] = 0
    /\ Len(index[ndx[1] + 1]) = 1

\* ---------------------------------------------------------------- Position
\* a cursor over the waypoints of an index
Position_Start == [tag |-> "Start", ndx |-> <<0, 0>>, waypoint |-> Unmapped(0, 0)]
Position_End == [tag |-> "End", ndx |-> <<0, 0>>, waypoint |-> Unmapped(0, 0)]
Existing(index, ndx) ==
    [tag |-> "Existing", ndx |-> ndx,
     waypoint |-> IF index_valid(index, ndx) THEN value(index, ndx) ELSE Unmapped(0, 0)]

\* SaneIndex::next: the position of the next waypoint
SaneIndex_next(index, pos) ==
    IF pos.tag = "Start"
    THEN IF index_valid(index, <<0, 0>>) THEN Existing(index, <<0, 0>>) ELSE Position_End
    ELSE IF pos.tag = "Existing"
         THEN IF index_next(index, pos.ndx).some
              THEN Existing(index, index_next(index, pos.ndx).val) ELSE Position_End
    ELSE pos

\* SaneIndex::next_back: the position of the previous waypoint
SaneIndex_next_back(index, pos) ==
    IF pos.tag = "End"
    THEN IF index = <<>> THEN Position_Start
         ELSE Existing(index, <<Len(index) - 1, Len(index[Len(index)]) - 1>>)
    ELSE IF pos.tag = "Existing"
         THEN IF index_prev(index, pos.ndx).some
              THEN Existing(index, index_prev(index, pos.ndx).val) ELSE Position_Start
    ELSE pos

\* mutant: the part kept below the gap is cut at the gap's end
gap_left_at_end(unmapped, gap) == split_at(unmapped, gap.end)[1]

\* mutant: the part kept above the gap is cut at the gap's start
gap_right_at_start(unmapped, gap) == split_at(unmapped, gap.start)[2]

\* mutant: the part of the region above the gap is not kept
gap_right_dropped(unmapped, gap) == None

\* resolve_gap, lines 164-165: the Unmapped parts kept below and above the gap
gap_left(unmapped, gap) == split_at(unmapped, gap.start)[1]
gap_right(unmapped, gap) ==
    split_at(split_at(unmapped, gap.start)[2].val, gap.end)[2]

\* mutant: the row index is not advanced past the inserted left part
gap_splice_no_advance(index, i0, left, right) ==
    LET idx1 == IF left.some THEN InsertRow(index, i0, <<left.val>>) ELSE index
        idx2 == IF right.some THEN InsertRow(idx1, i0 + 1, <<right.val>>) ELSE idx1
    IN  [ok |-> TRUE, index |-> idx2, i |-> i0]

\* resolve_gap, lines 166-173: splice the kept parts around row i0 and
\* return the row that insert may overwrite
gap_splice(index, i0, left, right) ==
    LET idx1 == IF left.some THEN InsertRow(index, i0, <<left.val>>) ELSE index
        i    == IF left.some THEN i0 + 1 ELSE i0
        idx2 == IF right.some THEN InsertRow(idx1, i + 1, <<right.val>>) ELSE idx1
    IN  [ok |-> TRUE, index |-> idx2, i |-> i]

\* SaneIndex::resolve_gap, continued from the waypoint ndx0 that search found
resolve_gap_from(index, gap, ndx0) ==
    LET ndx == gap_ndx(index, gap, ndx0)
    IN  IF ~gap_asserts(index, gap, ndx) THEN Panic
        ELSE IF ~split_at(value(index, ndx), gap.start)[2].some THEN Panic
        ELSE gap_splice(index, ndx[1],
                        gap_left(value(index, ndx), gap),
                        gap_right(value(index, ndx), gap))

\* SaneIndex::resolve_gap: every outcome of the call
resolve_gap(index, gap) ==
    {resolve_gap_from(index, gap, ndx0) : ndx0 \in search(index, gap.start)}

\* mutant: the row before the gap's row is dropped
insert_remove_prev(g) == RemoveRow(g.index, IF g.i > 0 THEN g.i - 1 ELSE 0)

\* insert, line 183: no line start in the range, drop the row
insert_remove(g) == RemoveRow(g.index, g.i)

\* insert, lines 185-189: the row becomes the Mapped waypoints
insert_mapped(g, offsets) ==
    [g.index EXCEPT ![g.i + 1] = [k \in 1..Len(offsets) |-> Mapped(offsets[k])]]

\* SaneIndex::insert, after resolve_gap returned g
insert_from(g, offsets, range) ==
    IF ~g.ok THEN Panic
    ELSE IF Len(g.index[g.i + 1]) # 1 \/ is_mapped(g.index[g.i + 1][1]) THEN Panic
    ELSE IF offsets = <<>> THEN [ok |-> TRUE, index |-> insert_remove(g)]
    ELSE IF \E k \in 1..Len(offsets) :
               ~((range.start <= offsets[k] /\ offsets[k] < range.end)
                 \/ range.end = offsets[k])
         THEN Panic
    ELSE [ok |-> TRUE, index |-> insert_mapped(g, offsets)]

\* SaneIndex::insert: every outcome of the call
insert(index, offsets, range) ==
    {insert_from(g, offsets, range) : g \in resolve_gap(index, range)}

\* the offsets one past each '\n' of chunk, as parse_chunk collects them
RECURSIVE newline_offsets(_, _, _)
newline_offsets(chunk, offset, k) ==
    IF k > Len(chunk) THEN <<>>
    ELSE (IF chunk[k] = NL THEN <<offset + (k - 1) + 1>> ELSE <<>>)
         \o newline_offsets(chunk, offset, k + 1)

\* mutant: offset 0 is not forced into the offsets of a chunk at 0
chunk_offsets_unforced(offset, chunk) == newline_offsets(chunk, offset, 1)

\* parse_chunk, lines 225-231: the offsets handed to insert
chunk_offsets(offset, chunk) ==
    IF offset = 0 THEN <<0>> \o newline_offsets(chunk, offset, 1)
    ELSE newline_offsets(chunk, offset, 1)

\* SaneIndex::parse_chunk: every outcome of the call
parse_chunk(index, offset, chunk) ==
    insert(index, chunk_offsets(offset, chunk),
           [start |-> offset, end |-> offset + Len(chunk)])

\* SaneIter: the waypoints in sequence order across all rows
RECURSIVE Flat(_)
Flat(index) == IF index = <<>> THEN <<>> ELSE Head(index) \o Flat(Tail(index))

\* ------------------------------------------------------- index state machine
VARIABLES
    file,       \* the source's bytes
    index,      \* SaneIndex.index of the line indexer: rows of waypoints
    hist,       \* what the direct index calls made so far explored
    panicked,   \* an assertion failed
    last,       \* the last direct index call: its kind, offsets and range
    chunk_size, \* the byte source's chunk size
    it,         \* LineIndexerIterator: pos and rev_pos
    run,        \* what the current iterator yielded so far
    filter,     \* IndexFilter: f and include
    findex,     \* IndexFilter.index
    cursor,     \* the forward and the backward cursor over the FilteredLog
    frun,       \* what the cursors over the FilteredLog yielded so far
    written,    \* the bytes the producer of a stream has written to the pipe
    open,       \* the producer has not closed the pipe
    reader,     \* the reader thread: where it is, what it took, what it holds
    queue,      \* the records in the sync_channel
    buffer,     \* CachedStreamReader.buffer
    rx,         \* CachedStreamReader.rx is Some
    caller,     \* the consumer: idle, in fill_buffer's loop, or in wait
    zfile,      \* the compressed file: its frames and their blocks
    cf,         \* CompressedFile: file position, decoder, frames, pos, ...
    zlast,      \* the last call on the CompressedFile and what it returned
    fault,      \* the iterator call during which a read of the source failed
    timeout,    \* Timeout: None, Future(t) or TimedOut
    now,        \* Instant::now()
    tcall       \* the last call on the Timeout and what it returned

idxVars == <<file, index, hist, panicked, last>>
logVars == <<chunk_size, it, run>>
filterVars == <<filter, findex, cursor, frun>>
streamVars == <<written, open, reader, queue, buffer, rx, caller>>
zipVars == <<zfile, cf, zlast>>
timeVars == <<timeout, now, tcall>>
sourcesVars == <<streamVars, zipVars, fault, timeVars>>
vars == <<idxVars, logVars, filterVars, sourcesVars>>

Range(start, end) == [start |-> start, end |-> end]
BytesOf(range) == range.start..(range.end - 1)

\* ------------------------------------------------------------ byte source
len == Len(file)

SetMin(S) == CHOOSE x \in S : \A y \in S : x <= y
SetMax(S) == CHOOSE x \in S : \A y \in S : x >= y

\* mutant: the read window starts half a chunk after the target
chunk_ahead(target) ==
    <<Min(target + (chunk_size \div 2), len), Min(target + chunk_size, len)>>

\* TextLogFile::chunk: the read window of chunk_size bytes around target
chunk(target) ==
    LET start0 == Max(target - (chunk_size \div 2), 0)
        end    == Min(start0 + chunk_size, len)
        start  == Max(end - chunk_size, 0)
    IN  <<start, end>>

\* read_line: the bytes from start through the next '\n', or to the end
read_line_at(start) ==
    LET ends == {e \in (start + 1)..len : file[e] = NL}
    IN  Slice(file, start, IF ends = {} THEN len ELSE SetMin(ends))

\* ---------------------------------------------------------------- Location
Loc(tag, dir, off, lo, hi) ==
    [tag |-> tag, dir |-> dir, off |-> off, lo |-> lo, hi |-> hi]

Virtual_Start == Loc("Start", "", 0, 0, 0)
Virtual_End == Loc("End", "", 0, 0, 0)
Virtual_Before(offset) == Loc("Before", "", offset, 0, 0)
Virtual_AtOrAfter(offset) == Loc("AtOrAfter", "", offset, 0, 0)
Invalid == Loc("Invalid", "", 0, 0, 0)
Indexed(offset) == Loc("Indexed", "", offset, 0, 0)

\* TargetOffset
AtOrAfter(offset) == [dir |-> "AtOrAfter", off |-> offset]
AtOrBefore(offset) == [dir |-> "AtOrBefore", off |-> offset]

\* Location::Gap(GapRange { target, gap: lo..hi })
Gap(target, lo, hi) == Loc("Gap", target.dir, target.off, lo, hi)

is_gap(pos) == pos.tag = "Gap"
gap_target(gap) == [dir |-> gap.dir, off |-> gap.off]

\* Location::offset
offset_of(pos) == IF pos.tag = "Indexed" THEN Some(pos.off) ELSE None

\* The line starts an unexplored region may hide are those its bytes decide:
\* one past each of its bytes (parse_chunk), and 0 for the region at 0.
hides_nothing(w, offset) == FALSE
hides_at_or_after(w, offset) == w.hi >= offset
hides_at_or_before(w, offset) == w.lo < offset \/ w.lo = 0

\* the line start a target asks for if the index knows it, else the
\* unexplored region that has to be read to know it
locate(idx, target) ==
    LET F == Flat(idx)
    IN  IF target.dir = "AtOrAfter"
        THEN LET c == {k \in 1..Len(F) : IF is_mapped(F[k]) THEN F[k].lo >= target.off
                                          ELSE hides_at_or_after(F[k], target.off)}
             IN  IF c = {} THEN Invalid
                 ELSE LET w == F[SetMin(c)]
                      IN  IF is_mapped(w) THEN Indexed(w.lo)
                          ELSE Gap(AtOrAfter(Max(target.off, w.lo)), w.lo, w.hi)
        ELSE LET c == {k \in 1..Len(F) : IF is_mapped(F[k]) THEN F[k].lo <= target.off
                                          ELSE hides_at_or_before(F[k], target.off)}
             IN  IF c = {} THEN Invalid
                 ELSE LET w == F[SetMax(c)]
                      IN  IF is_mapped(w) THEN Indexed(w.lo)
                          ELSE Gap(AtOrBefore(Min(target.off, w.hi)), w.lo, w.hi)

\* resolve a virtual location or a gap met earlier against the index as it
\* is now and the source's length
resolve(idx, find, end_of_file) ==
    IF find.tag = "Start" THEN locate(idx, AtOrAfter(0))
    ELSE IF find.tag = "End"
         THEN IF end_of_file = 0 THEN Invalid
              ELSE locate(idx, AtOrBefore(end_of_file - 1))
    ELSE IF find.tag = "Before"
         THEN IF find.off = 0 \/ end_of_file = 0 THEN Invalid
              ELSE locate(idx, AtOrBefore(Min(find.off, end_of_file) - 1))
    ELSE IF find.tag = "AtOrAfter"
         THEN IF find.off >= end_of_file THEN Invalid
              ELSE locate(idx, AtOrAfter(find.off))
    ELSE IF is_gap(find) THEN locate(idx, gap_target(find))
    ELSE find

\* step to the next / previous indexed line or gap
next_line_index(idx, find) ==
    IF find.tag = "Indexed" THEN locate(idx, AtOrAfter(find.off + 1)) ELSE find

prev_line_index(idx, find) ==
    IF find.tag = "Indexed"
    THEN IF find.off = 0 THEN Invalid ELSE locate(idx, AtOrBefore(find.off - 1))
    ELSE find

\* ------------------------------------------------------------- LineIndexer
\* the one outcome of parse_chunk; an index in which search could answer
\* in two ways counts as a failure
the_one(S) == IF Cardinality(S) = 1 THEN CHOOSE r \in S : TRUE ELSE Panic

parse_one(idx, offset, data) == the_one(parse_chunk(idx, offset, data))

Failed(idx) == [ok |-> FALSE, index |-> idx, pos |-> Invalid]

\* LineIndexer::index_chunk: read the chunk around the gap's target, parse
\* it into the index and look the target up again
index_chunk(idx, gap) ==
    LET offset == gap.off
        start  == gap.lo
        end    == Min(gap.hi, len)
    IN  IF ~(start <= offset) THEN Failed(idx)
        ELSE IF start >= end THEN [ok |-> TRUE, index |-> idx, pos |-> Virtual_End]
        ELSE LET c == chunk(offset)
                 s == Max(start, c[1])
                 e == Min(end, c[2])
             IN  IF ~(s <= offset /\ offset <= e) THEN Failed(idx)
                 ELSE LET parsed(r) ==
                              IF ~r.ok THEN Failed(idx)
                              ELSE [ok |-> TRUE, index |-> r.index,
                                    pos |-> locate(r.index, gap_target(gap))]
                      IN  parsed(parse_one(idx, s, Slice(file, s, e)))

\* the loop of resolve_location; every round must parse at least one byte,
\* so more rounds than bytes is a loop that does not end
RECURSIVE resolve_gaps(_, _, _)
resolve_gaps(idx, pos, rounds) ==
    IF ~is_gap(pos) THEN [ok |-> TRUE, index |-> idx, pos |-> pos]
    ELSE IF rounds = 0 THEN Failed(idx)
    ELSE LET again(r) == IF ~r.ok THEN r ELSE resolve_gaps(r.index, r.pos, rounds - 1)
         IN  again(index_chunk(idx, pos))

\* LineIndexer::resolve_location
resolve_location(idx, pos) == resolve_gaps(idx, resolve(idx, pos, len), len + 2)

\* ----------------------------------------------------- LineIndexerIterator
LineIndexerIterator_new == [pos |-> Virtual_Start, rev_pos |-> Virtual_End]

\* mutant: the reverse end starts after the offset instead of before it
new_from_inclusive(offset) ==
    [pos |-> Virtual_AtOrAfter(offset), rev_pos |-> Virtual_Before(offset + 1)]

LineIndexerIterator_new_from(offset) ==
    [pos |-> Virtual_AtOrAfter(offset), rev_pos |-> Virtual_Before(offset)]

\* LineIndexerIterator::iterate: resolve pos without moving the iterator;
\* when the two ends have met, both become Invalid
iterate(idx, iter, pos) ==
    LET resolved(r) ==
            IF iter.rev_pos = iter.pos
            THEN [ok |-> r.ok, index |-> r.index,
                  iter |-> [pos |-> Invalid, rev_pos |-> Invalid],
                  pos |-> Invalid, ret |-> offset_of(r.pos)]
            ELSE [ok |-> r.ok, index |-> r.index, iter |-> iter,
                  pos |-> r.pos, ret |-> offset_of(r.pos)]
    IN  resolved(resolve_location(idx, pos))

\* mutant: the line start at the end of the source is yielded too
next_unfiltered(ret) == ret

\* LineIndexerIterator::next, lines 84-88: no line starts at or past the end
next_within_len(ret) == IF ret.some /\ ret.val >= len THEN None ELSE ret

\* LineIndexerIterator::next
LineIndexerIterator_next(idx, iter) ==
    LET advance(r) ==
            [ok |-> r.ok, index |-> r.index,
             iter |-> [r.iter EXCEPT !.pos = next_line_index(r.index, r.pos)],
             ret |-> next_within_len(r.ret)]
    IN  advance(iterate(idx, iter, iter.pos))

\* LineIndexerIterator::next_back
LineIndexerIterator_next_back(idx, iter) ==
    LET retreat(r) ==
            [ok |-> r.ok, index |-> r.index,
             iter |-> [r.iter EXCEPT !.rev_pos = prev_line_index(r.index, r.pos)],
             ret |-> r.ret]
    IN  retreat(iterate(idx, iter, iter.rev_pos))

\* ground truth: the lines of a byte sequence split at every '\n', as
\* (start offset, bytes) pairs
RECURSIVE split_lines(_, _, _)
split_lines(f, start, k) ==
    IF k > Len(f) THEN IF start < Len(f) THEN << <<start, Slice(f, start, Len(f))>> >> ELSE <<>>
    ELSE IF f[k] = NL THEN << <<start, Slice(f, start, k)>> >> \o split_lines(f, k, k + 1)
    ELSE split_lines(f, start, k + 1)

RECURSIVE Reverse(_)
Reverse(s) == IF s = <<>> THEN <<>> ELSE Reverse(Tail(s)) \o <<Head(s)>>

IsPrefix(s, t) == Len(s) <= Len(t) /\ SubSeq(t, 1, Len(s)) = s
IsSuffix(s, t) == Len(s) <= Len(t) /\ SubSeq(t, Len(t) - Len(s) + 1, Len(t)) = s

\* LineIndexerDataIterator: each yielded offset with the line read there
Lines(offsets) == [k \in 1..Len(offsets) |-> <<offsets[k], read_line_at(offsets[k])>>]

\* ------------------------------------------------------------- IndexFilter
SearchType_None == [kind |-> "None", s |-> <<>>]
\* SearchType::Raw(s): the line contains s
SearchType_Raw(s) == [kind |-> "Raw", s |-> s]
\* SearchType::Regex of the pattern "s$" for a literal s: the line ends in s
SearchType_Regex(s) == [kind |-> "Regex", s |-> s]

str_contains(line, s) ==
    \E k \in 0..(Len(line) - Len(s)) : SubSeq(line, k + 1, k + Len(s)) = s

is_match_type(line, typ) ==
    IF typ.kind = "Regex" THEN IsSuffix(typ.s, line)
    ELSE IF typ.kind = "Raw" THEN str_contains(line, typ.s)
    ELSE TRUE

\* mutant: the line terminator stays on the line
keep_newline(line) == line

\* trim_newline: line.strip_suffix("\n").unwrap_or(line)
trim_newline(line) ==
    IF line # <<>> /\ line[Len(line)] = NL THEN SubSeq(line, 1, Len(line) - 1) ELSE line

IndexFilter_new(f, include) == [f |-> f, include |-> include]

\* IndexFilter::is_match: is_match_type(line, f) ^ !include
is_match(flt, line) == is_match_type(line, flt.f) # (~flt.include)

\* IndexFilter::eval
eval(flt, line) == is_match(flt, trim_newline(line))

\* IndexFilter::insert: the one outcome of inserting into the filter's index
IndexFilter_insert(fidx, range, offsets) == the_one(insert(fidx, offsets, range))

\* IndexFilter::next
IndexFilter_next(fidx, find) == next_line_index(fidx, find)

\* ------------------------------------------------------------- FilteredLog
\* st is the pair of indexes a FilteredLog call works on: the inner log's
\* (index) and the filter's (findex)
FilteredLog_failed(st) ==
    [ok |-> FALSE, index |-> st.index, findex |-> st.findex, pos |-> Invalid]

FilteredLog_at(idx, fidx, pos) ==
    [ok |-> TRUE, index |-> idx, findex |-> fidx, pos |-> pos]

gap_to_target(gap) ==
    IF gap.dir = "AtOrAfter" THEN Virtual_AtOrAfter(gap.off)
    ELSE Virtual_Before(gap.off + 1)

is_after(seek) == seek.tag = "AtOrAfter"

\* evaluate one line of the inner log against the gap: the range goes into
\* the filter's index, with the line's offset if the line passes
eval_line(flt, fidx, gap, range, line, offset) ==
    LET inserted(r) ==
            IF ~r.ok THEN [ok |-> FALSE, findex |-> fidx, pos |-> Invalid]
            ELSE [ok |-> TRUE, findex |-> r.index,
                  pos |-> locate(r.index, gap_target(gap))]
    IN  inserted(IndexFilter_insert(fidx, range,
                                    IF eval(flt, line) THEN <<offset>> ELSE <<>>))

\* FilteredLog::index_chunk, lines 69-75: the lines ran out
lines_ran_out(st, gap) ==
    IF gap_to_target(gap).off < len
    THEN FilteredLog_at(st.index, st.findex, resolve(st.findex, gap_to_target(gap), len))
    ELSE FilteredLog_at(st.index, st.findex, Invalid)

\* FilteredLog::index_chunk, lines 47-56: the lines at and after the target
RECURSIVE eval_forward(_, _, _, _, _, _)
eval_forward(flt, st, gap, iter, start, rounds) ==
    LET line_at(n) ==
            IF ~n.ok \/ rounds = 0 THEN FilteredLog_failed(st)
            ELSE IF ~n.ret.some THEN lines_ran_out([st EXCEPT !.index = n.index], gap)
            ELSE LET line == read_line_at(n.ret.val)
                     end  == n.ret.val + Len(line)
                     evaluated(e) ==
                         IF ~e.ok THEN FilteredLog_failed(st)
                         ELSE IF ~is_gap(e.pos)
                              THEN FilteredLog_at(n.index, e.findex, e.pos)
                         ELSE eval_forward(flt, [index |-> n.index, findex |-> e.findex],
                                           gap, n.iter, end, rounds - 1)
                 IN  evaluated(eval_line(flt, st.findex, gap, Range(start, end),
                                         line, n.ret.val))
    IN  line_at(LineIndexerIterator_next(st.index, iter))

\* FilteredLog::index_chunk, lines 58-67: the lines before the target
RECURSIVE eval_backward(_, _, _, _, _, _)
eval_backward(flt, st, gap, iter, end, rounds) ==
    LET line_at(n) ==
            IF ~n.ok \/ rounds = 0 THEN FilteredLog_failed(st)
            ELSE IF ~n.ret.some THEN lines_ran_out([st EXCEPT !.index = n.index], gap)
            ELSE LET line  == read_line_at(n.ret.val)
                     start == n.ret.val
                     evaluated(e) ==
                         IF ~e.ok THEN FilteredLog_failed(st)
                         ELSE IF ~is_gap(e.pos)
                              THEN FilteredLog_at(n.index, e.findex, e.pos)
                         ELSE eval_backward(flt, [index |-> n.index, findex |-> e.findex],
                                            gap, n.iter, start, rounds - 1)
                 IN  evaluated(eval_line(flt, st.findex, gap,
                                         Range(start, Max(end, start + Len(line))),
                                         line, n.ret.val))
    IN  line_at(LineIndexerIterator_next_back(st.index, iter))

\* FilteredLog::index_chunk
FilteredLog_index_chunk(flt, st, gap) ==
    LET seek   == gap_to_target(gap)
        offset == seek.off
        iter   == LineIndexerIterator_new_from(offset)
    IN  IF is_after(seek) THEN eval_forward(flt, st, gap, iter, offset, len + 1)
        ELSE eval_backward(flt, st, gap, iter, offset, len + 1)

\* the loop of FilteredLog::resolve_location
RECURSIVE FilteredLog_resolve_gaps(_, _, _, _)
FilteredLog_resolve_gaps(flt, st, pos, rounds) ==
    IF ~is_gap(pos) THEN FilteredLog_at(st.index, st.findex, pos)
    ELSE IF rounds = 0 THEN FilteredLog_failed(st)
    ELSE LET again(r) ==
                 IF ~r.ok THEN r
                 ELSE FilteredLog_resolve_gaps(flt, [index |-> r.index, findex |-> r.findex],
                                               resolve(r.findex, r.pos, len), rounds - 1)
         IN  again(FilteredLog_index_chunk(flt, st, pos))

\* FilteredLog::resolve_location
FilteredLog_resolve_location(flt, st, pos) ==
    FilteredLog_resolve_gaps(flt, st, resolve(st.findex, pos, len), len + 2)

\* IndexedLog::read_line(pos, next_pos): the line at the tracker, if it is
\* at one, and the tracker moves to next_pos
read_line(r, next_pos) ==
    [ok |-> r.ok, index |-> r.index, findex |-> r.findex,
     tracker |-> next_pos, line |-> offset_of(r.pos)]

\* FilteredLog::next
FilteredLog_next(flt, st, tracker) ==
    LET located(r) == read_line(r, IndexFilter_next(r.findex, r.pos))
    IN  located(FilteredLog_resolve_location(flt, st, tracker))

\* FilteredLog::next_back
FilteredLog_next_back(flt, st, tracker) ==
    LET located(r) == read_line(r, IndexFilter_next(r.findex, r.pos))
    IN  located(FilteredLog_resolve_location(flt, st, tracker))

\* ----------------------------------------------------------- state machines
NoFilter == IndexFilter_new(SearchType_None, TRUE)

\* the chunk sizes a run may be built with
ChunkSizes == 2..MaxChunk

Searches ==
    {SearchType_None, SearchType_Raw(<<CH, CH>>), SearchType_Raw(<<NL>>),
     SearchType_Regex(<<CH>>)}

Filters == {IndexFilter_new(f, include) : f \in Searches, include \in BOOLEAN}

NoRun ==
    [fwd |-> <<>>, rev |-> <<>>, fwdDone |-> FALSE, revDone |-> FALSE, iters |-> 0,
     from |-> None]

\* CachedStreamReader::new: an empty buffer, the reader thread spawned on
\* a pipe nothing was written to yet
StreamNew ==
    /\ written = <<>>
    /\ open = TRUE
    /\ reader = [pc |-> "read_line", taken |-> 0, hand |-> <<>>, lines |-> 0]
    /\ queue = <<>>
    /\ buffer = <<>>
    /\ rx = TRUE
    /\ caller = [pc |-> "idle", received |-> 0]

\* no compressed file is open
NoCompressedFile ==
    /\ zfile = <<>>
    /\ cf = [status |-> "none"]
    /\ zlast = [op |-> "none"]

\* -------------------------------------------------------------- Timeout
Timeout_None == [tag |-> "None", t |-> 0]
Timeout_Future(t) == [tag |-> "Future", t |-> t]
Timeout_TimedOut == [tag |-> "TimedOut", t |-> 0]

\* Timeout::set at instant n
Timeout_set(limit, n) ==
    IF limit.some THEN Timeout_Future(n + limit.val) ELSE Timeout_None

\* Timeout::timed_out
timed_out(t) == t.tag = "TimedOut"

\* mutant: a latch found set is released
expire_once(t, n) ==
    IF t.tag = "Future" /\ n > t.t THEN Timeout_TimedOut
    ELSE IF t.tag = "TimedOut" THEN Timeout_None
    ELSE t

\* Timeout::is_timed_out, lines 20-25: the latch is set once the instant
\* is past the deadline
expire(t, n) ==
    IF t.tag = "Future" /\ n > t.t THEN Timeout_TimedOut ELSE t

\* Timeout::is_timed_out: the Timeout afterwards; it returns timed_out of it
is_timed_out(t, n) == expire(t, n)

NoTimeout ==
    /\ timeout = Timeout_None
    /\ now = 0
    /\ tcall = [op |-> "new", limit |-> None, latched |-> FALSE]

\* a source, a chunk size and a filter, nothing indexed or iterated yet
InitWith(files, sizes, filters) ==
    /\ file \in files
    /\ index = new_index
    /\ hist = [covered |-> {}, empties |-> 0, calls |-> 0, outOfOrder |-> FALSE]
    /\ panicked = FALSE
    /\ last = [op |-> "new", offsets |-> <<>>, range |-> Range(0, 0)]
    /\ chunk_size \in sizes
    /\ it = LineIndexerIterator_new
    /\ run = NoRun
    /\ filter \in filters
    /\ findex = new_index
    /\ cursor = [pos |-> Virtual_Start, pos_back |-> Virtual_End]
    /\ frun = NoRun
    /\ StreamNew
    /\ NoCompressedFile
    /\ fault = [op |-> "none"]
    /\ NoTimeout

Init == InitWith(Files, {MaxChunk}, {NoFilter})

\* a range no byte of which, nor its first offset, has been explored
Unexplored(range) ==
    /\ range.start \notin hist.covered
    /\ BytesOf(range) \cap hist.covered = {}
    /\ (range.start = range.end) => hist.empties < MaxEmpty

\* one call of SaneIndex::insert with the given arguments
Call(op, offsets, range) ==
    /\ ~panicked
    /\ Unexplored(range)
    /\ \E r \in insert(index, offsets, range) :
          /\ index' = IF r.ok THEN r.index ELSE index
          /\ panicked' = ~r.ok
    /\ last' = [op |-> op, offsets |-> offsets, range |-> range]
    /\ UNCHANGED <<file, logVars, filterVars, sourcesVars>>

\* index.parse_chunk(lo, &file[lo..hi])
ParseChunk ==
    \E lo \in 0..Len(file) : \E hi \in lo..Len(file) :
        /\ Call("parse_chunk", chunk_offsets(lo, Slice(file, lo, hi)), Range(lo, hi))
        /\ hist' = [covered |-> hist.covered \cup lo..(hi - 1),
                    empties |-> hist.empties + (IF lo = hi THEN 1 ELSE 0),
                    calls |-> hist.calls + 1,
                    outOfOrder |-> hist.outOfOrder
                                    \/ \E b \in 0..(lo - 1) : b \notin hist.covered]

\* strictly increasing offset lists within lo..=hi
RECURSIVE SortedSeqs(_, _)
SortedSeqs(lo, hi) ==
    IF lo > hi THEN {<<>>}
    ELSE LET rest == SortedSeqs(lo + 1, hi)
         IN  rest \cup {<<lo>> \o t : t \in rest}

\* index.insert(offsets, lo..hi) with offsets inside lo..=hi
Insert ==
    \E lo \in 0..MaxRange : \E hi \in lo..MaxRange : \E offsets \in SortedSeqs(lo, hi) :
        /\ Call("insert", offsets, Range(lo, hi))
        /\ hist' = [hist EXCEPT !.covered = @ \cup lo..(hi - 1),
                                !.empties = @ + (IF lo = hi THEN 1 ELSE 0)]

Next == ParseChunk
Spec == Init /\ [][Next]_vars

\* insert called directly, as the unit tests of sane_index.rs do
InitInsert == InitWith({<<>>}, {MaxChunk}, {NoFilter})
NextInsert == Insert
SpecInsert == InitInsert /\ [][NextInsert]_vars

\* --------------------------------------------------- iterating over the log
Yield(r, seq, done, ret) ==
    IF ret.some THEN [r EXCEPT ![seq] = Append(@, ret.val)] ELSE [r EXCEPT ![done] = TRUE]

\* LineIndexerIterator::new(&mut log): a fresh iterator over the log as
\* the iterators before it left it
NewIterator ==
    /\ ~panicked
    /\ run.iters < MaxIters
    /\ it' = LineIndexerIterator_new
    /\ run' = [NoRun EXCEPT !.iters = run.iters + 1]
    /\ UNCHANGED <<idxVars, chunk_size, filterVars, sourcesVars>>

\* it.next()
IterNext ==
    /\ ~panicked
    /\ run.iters >= 1 /\ ~run.fwdDone
    /\ \E r \in {LineIndexerIterator_next(index, it)} :
           /\ index' = r.index
           /\ it' = r.iter
           /\ panicked' = ~r.ok
           /\ run' = Yield(run, "fwd", "fwdDone", r.ret)
    /\ UNCHANGED <<file, hist, last, chunk_size, filterVars, sourcesVars>>

\* it.next_back()
IterNextBack ==
    /\ ~panicked
    /\ run.iters >= 1 /\ ~run.revDone
    /\ \E r \in {LineIndexerIterator_next_back(index, it)} :
           /\ index' = r.index
           /\ it' = r.iter
           /\ panicked' = ~r.ok
           /\ run' = Yield(run, "rev", "revDone", r.ret)
    /\ UNCHANGED <<file, hist, last, chunk_size, filterVars, sourcesVars>>

InitLog == InitWith(Files, ChunkSizes, {NoFilter})
NextLog == NewIterator \/ IterNext \/ IterNextBack
SpecLog == InitLog /\ [][NextLog]_vars

\* ------------------------------------------- iterating over a FilteredLog
\* log.next(&mut pos) with the forward cursor
FilterNext ==
    /\ ~panicked
    /\ ~frun.fwdDone
    /\ \E r \in {FilteredLog_next(filter, [index |-> index, findex |-> findex],
                                   cursor.pos)} :
           /\ index' = r.index
           /\ findex' = r.findex
           /\ cursor' = [cursor EXCEPT !.pos = r.tracker]
           /\ panicked' = ~r.ok
           /\ frun' = Yield(frun, "fwd", "fwdDone", r.line)
    /\ UNCHANGED <<file, hist, last, logVars, filter, sourcesVars>>

\* log.next_back(&mut pos) with the backward cursor
FilterNextBack ==
    /\ ~panicked
    /\ ~frun.revDone
    /\ \E r \in {FilteredLog_next_back(filter, [index |-> index, findex |-> findex],
                                        cursor.pos_back)} :
           /\ index' = r.index
           /\ findex' = r.findex
           /\ cursor' = [cursor EXCEPT !.pos_back = r.tracker]
           /\ panicked' = ~r.ok
           /\ frun' = Yield(frun, "rev", "revDone", r.line)
    /\ UNCHANGED <<file, hist, last, logVars, filter, sourcesVars>>

InitFilter == InitWith(Files, ChunkSizes, Filters)
NextFilter == FilterNext \/ FilterNextBack
SpecFilter == InitFilter /\ [][NextFilter]_vars

\* ------------------------------------------------------------ observations
Waypoints(idx) == UNION {{idx[i][j] : j \in 1..Len(idx[i])} : i \in 1..Len(idx)}
MappedOffsets(idx) == {w.lo : w \in {v \in Waypoints(idx) : is_mapped(v)}}
UnmappedRanges(idx) == {w \in Waypoints(idx) : ~is_mapped(w)}
InUnmapped(idx, o) == \E u \in UnmappedRanges(idx) : u.lo <= o /\ o < u.hi

\* ------------------------------------------------------------------ claims
MappedSeq(idx) == SelectSeq(Flat(idx), is_mapped)
FullyParsed == hist.covered = 0..(Len(file) - 1)
OnlyChunks == hist.empties = 0

\* C1: when the non-empty chunks of a partition of [0,N), N >= 1, have all
\* been parsed, in whatever order, no call failed and the waypoint sequence
\* equals the one a single parse_chunk over the whole source produces.
C1_OrderIndependent ==
    /\ OnlyChunks => ~panicked
    /\ (OnlyChunks /\ FullyParsed /\ Len(file) >= 1) =>
          \A whole \in parse_chunk(new_index, 0, file) :
              whole.ok /\ Flat(index) = Flat(whole.index)

\* C1 witness: a source with a line terminator, fully parsed by at least
\* three chunks, some of them parsed before the bytes below them.
C1_Witness ==
    /\ OnlyChunks /\ FullyParsed /\ ~panicked
    /\ hist.calls >= 3 /\ hist.outOfOrder
    /\ \E k \in 1..Len(file) : file[k] = NL

\* C6 (as claimed): the Mapped offsets, read in sequence order across all
\* rows, are strictly increasing in every state parse_chunk calls reach.
C6_MappedStrictlyIncreasing ==
    \A k \in 1..Len(MappedSeq(index)) : \A l \in (k + 1)..Len(MappedSeq(index)) :
        MappedSeq(index)[k].lo < MappedSeq(index)[l].lo

\* C7 (as claimed): no Mapped offset o has lo <= o < hi for an Unmapped lo..hi.
C7_MappedOutsideUnmapped ==
    \A o \in MappedOffsets(index) : ~InUnmapped(index, o)

\* C7 (amended): no Mapped offset lies strictly inside an Unmapped range,
\* lo < o < hi; a line start may sit on the low bound of the region after it.
C7_MappedNotStrictlyInside ==
    \A o \in MappedOffsets(index) : \A u \in UnmappedRanges(index) :
        ~(u.lo < o /\ o < u.hi)

\* C7 witness: an explored chunk between two unexplored regions whose last
\* line start sits on the low bound of the region after it.
C7_Witness ==
    /\ ~panicked
    /\ \E u \in UnmappedRanges(index), v \in UnmappedRanges(index),
          o \in MappedOffsets(index) : u.lo < u.hi /\ u.hi < o /\ o = v.lo

\* C8 (as claimed): no two Unmapped ranges overlap or touch.
C8_UnmappedApart ==
    \A u \in UnmappedRanges(index), v \in UnmappedRanges(index) :
        u = v \/ u.hi < v.lo \/ v.hi < u.lo

\* C9 (as claimed): after insert(offsets, r) returned, every offset is Mapped
\* and no other point of the closed interval [r.start, r.end] is in an
\* Unmapped region.
C9_InsertClosed ==
    (last.op = "insert" /\ ~panicked) =>
        /\ \A k \in 1..Len(last.offsets) : last.offsets[k] \in MappedOffsets(index)
        /\ \A p \in last.range.start..last.range.end :
              (\A k \in 1..Len(last.offsets) : last.offsets[k] # p)
                  => ~InUnmapped(index, p)

\* C9 (amended): after insert(offsets, r) returned, every offset is Mapped
\* and no point of the half-open range [r.start, r.end) is in an Unmapped
\* region.
C9_InsertHalfOpen ==
    (last.op = "insert" /\ ~panicked) =>
        /\ \A k \in 1..Len(last.offsets) : last.offsets[k] \in MappedOffsets(index)
        /\ \A p \in BytesOf(last.range) : ~InUnmapped(index, p)

\* C9 witness: an insert of a non-empty range with offsets returned.
C9_Witness ==
    /\ last.op = "insert" /\ ~panicked
    /\ last.range.start < last.range.end
    /\ Len(last.offsets) >= 2

\* C10: across every insert or parse_chunk step every Mapped offset stays
\* Mapped and every byte outside all Unmapped regions stays outside.
Explored(idx) == {b \in 0..(MaxRange + 1) : ~InUnmapped(idx, b)}
C10_Monotone ==
    [][/\ MappedOffsets(index) \subseteq MappedOffsets(index')
       /\ Explored(index) \subseteq Explored(index')]_vars

\* C10 witness: a call made when line starts were already mapped and bytes
\* explored, which mapped more.
C10_Witness ==
    /\ ~panicked /\ last.op = "insert"
    /\ Cardinality(MappedOffsets(index) \ {last.offsets[k] : k \in 1..Len(last.offsets)}) >= 1
    /\ Len(last.offsets) >= 1
    /\ Explored(index) # {}

\* the lines of the source, split at every line terminator
Truth == split_lines(file, 0, 1)

\* a line without its terminator
content(bytes) == SelectSeq(bytes, LAMBDA b : b # NL)

\* the lines a filter lets through: (P matches the content) differs from
\* (not include)
Passing ==
    SelectSeq(Truth, LAMBDA l : is_match_type(content(l[2]), filter.f) # (~filter.include))

\* only next / only next_back was called on the current iterator
PureForward == run.iters >= 1 /\ run.rev = <<>> /\ ~run.revDone
PureBackward == run.iters >= 1 /\ run.fwd = <<>> /\ ~run.fwdDone

PlainReverseMirrorsForward ==
    PureBackward =>
        /\ IsPrefix(Lines(run.rev), Reverse(Truth))
        /\ run.revDone => Lines(run.rev) = Reverse(Truth)

\* reverse iteration of the filtered log, on indexes in any state
FilteredReverseMirrorsForward ==
    /\ IsPrefix(Lines(frun.rev), Reverse(Passing))
    /\ frun.revDone => Lines(frun.rev) = Reverse(Passing)

\* C4 (as claimed): reverse iteration from the end of a log, plain or
\* filtered, yields the lines of forward iteration in the opposite order.
C4_ReverseMirrorsForward ==
    PlainReverseMirrorsForward /\ FilteredReverseMirrorsForward

\* stepping forward then backward over the waypoints of an index
IndexNextBackUndoesNext(idx) ==
    \A p \in {Position_Start} \cup {Existing(idx, <<i, j>>) :
                  i \in 0..(Len(idx) - 1), j \in 0..(MaxLen + 1)} :
        (p.tag = "Start" \/ index_valid(idx, p.ndx)) =>
            (SaneIndex_next(idx, p).tag = "Existing"
                => SaneIndex_next_back(idx, SaneIndex_next(idx, p)) = p)

\* stepping forward then backward over a filtered log from its cursor
FilteredNextBackUndoesNext ==
    LET r1 == FilteredLog_next(filter, [index |-> index, findex |-> findex], cursor.pos)
        r2 == FilteredLog_next_back(filter, [index |-> r1.index, findex |-> r1.findex],
                                    r1.tracker)
    IN  (r1.ok /\ r1.line.some) => (r2.ok /\ r2.line.some /\ r2.line.val = r1.line.val)

\* C5 (as claimed): from every non-terminal position of an index or of a
\* filtered log, next then next_back lands on the same waypoint and line.
C5_NextBackUndoesNext ==
    /\ IndexNextBackUndoesNext(index)
    /\ IndexNextBackUndoesNext(findex)
    /\ FilteredNextBackUndoesNext

\* ------------------------------------------------------------ line counts
\* the count of known lines: the number of Mapped waypoints
count_lines(idx) == Len(MappedSeq(idx))

\* the number of '\n' bytes of a byte sequence
newlines(f) == Cardinality({k \in 1..Len(f) : f[k] = NL})

\* the line count the source has: one per '\n', plus one for an
\* unterminated last line
source_lines(f) ==
    newlines(f) + (IF Len(f) >= 1 /\ f[Len(f)] # NL THEN 1 ELSE 0)

MaxSearches == 1
LPAREN == 40
DOLLAR == 36

\* the result of a FilteredLog call that replaces the filter
Searched(ok, flt, fidx, idx) == [ok |-> ok, filter |-> flt, findex |-> fidx, index |-> idx]

\* mutant: the memoized index of the old predicate is kept
search_keeps_index(log, f, include) ==
    Searched(TRUE, IndexFilter_new(f, include), log.findex, log.index)

\* FilteredLog::search: self.filter = IndexFilter::new(search); the new
\* IndexFilter holds SaneIndex::new()
FilteredLog_search(log, f, include) ==
    Searched(TRUE, IndexFilter_new(f, include), new_index, log.index)

\* Regex::new on the patterns the model knows: literal bytes closed by '$'
\* compile to "ends with the literal"; an unclosed '(' does not compile
Regex_new(re) ==
    IF \E k \in 1..Len(re) : re[k] = LPAREN THEN [ok |-> FALSE, f |-> SearchType_None]
    ELSE IF re # <<>> /\ re[Len(re)] = DOLLAR
         THEN [ok |-> TRUE, f |-> SearchType_Regex(SubSeq(re, 1, Len(re) - 1))]
    ELSE [ok |-> FALSE, f |-> SearchType_None]

\* mutant: the filter is replaced before the pattern is compiled
search_regex_resets_first(log, re, include) ==
    LET compiled(c) ==
            IF ~c.ok THEN Searched(FALSE, IndexFilter_new(SearchType_None, include),
                                   new_index, log.index)
            ELSE FilteredLog_search(log, c.f, include)
    IN  compiled(Regex_new(re))

\* FilteredLog::search_regex: Regex::new(re)? returns the error before
\* search is called
FilteredLog_search_regex(log, re, include) ==
    LET compiled(c) ==
            IF ~c.ok THEN Searched(FALSE, log.filter, log.findex, log.index)
            ELSE FilteredLog_search(log, c.f, include)
    IN  compiled(Regex_new(re))

Patterns == {<<CH, DOLLAR>>, <<NL, DOLLAR>>, <<LPAREN, CH>>}

ThisLog == [filter |-> filter, findex |-> findex, index |-> index]

\* the caller after a call that may have replaced the filter: on success it
\* starts over with fresh cursors
Researched(op, r) ==
    /\ filter' = r.filter
    /\ findex' = r.findex
    /\ index' = r.index
    /\ last' = [op |-> op, offsets |-> <<>>, range |-> Range(0, 0)]
    /\ IF r.ok
       THEN /\ cursor' = [pos |-> Virtual_Start, pos_back |-> Virtual_End]
            /\ frun' = [NoRun EXCEPT !.iters = frun.iters + 1]
       ELSE UNCHANGED <<cursor, frun>>
    /\ UNCHANGED <<file, hist, panicked, logVars, sourcesVars>>

\* log.search(s)
Search ==
    /\ ~panicked
    /\ frun.iters < MaxSearches
    /\ \E s \in Searches : \E include \in BOOLEAN :
          Researched("search", FilteredLog_search(ThisLog, s, include))

\* log.search_regex(re), with a pattern that compiles or one that does not
SearchRegex ==
    /\ ~panicked
    /\ frun.iters < MaxSearches
    /\ \E re \in Patterns : \E include \in BOOLEAN :
          \E r \in {FilteredLog_search_regex(ThisLog, re, include)} :
              Researched(IF r.ok THEN "search_regex" ELSE "search_regex_err", r)

NextSearch == FilterNext \/ FilterNextBack \/ Search \/ SearchRegex
SpecSearch == InitFilter /\ [][NextSearch]_vars

\* C12: a search step leaves the filter's index fully unmapped and the inner
\* log (source, chunk size, index) as it was; and under the new predicate
\* the forward cursor yields the lines passing the new predicate only,
\* whatever the old predicate had memoized.
C12_SearchResetsFilter ==
    /\ [][(last'.op = "search" /\ frun'.iters = frun.iters + 1) =>
            /\ findex' = new_index
            /\ index' = index /\ file' = file /\ chunk_size' = chunk_size]_vars
    /\ [](frun.iters >= 1 =>
            /\ IsPrefix(Lines(frun.fwd), Passing)
            /\ frun.fwdDone => Lines(frun.fwd) = Passing)

\* C12 witness: after a search that replaced a filter with memoized lines
\* on an inner index already built, the forward pass under the new
\* predicate ended having dropped lines
C12_Witness ==
    /\ frun.iters >= 1 /\ frun.fwdDone /\ ~panicked
    /\ MappedOffsets(index) # {}
    /\ Len(frun.fwd) < Len(Truth)

\* C13: a search_regex step whose pattern does not compile leaves the
\* filter's predicate, include flag and memoized index, and the cursors over
\* it, exactly as they were.
C13_BadRegexKeepsFilter ==
    [][(\E re \in Patterns : \E include \in BOOLEAN :
           /\ ~Regex_new(re).ok
           /\ Researched("search_regex_err", FilteredLog_search_regex(ThisLog, re, include)))
       => UNCHANGED <<filter, findex, index, cursor, frun>>]_vars

\* C13 witness: a pattern was rejected while the filter held a predicate
\* other than the default and memoized lines
C13_Witness ==
    /\ last.op = "search_regex_err"
    /\ filter.f # SearchType_None
    /\ MappedOffsets(findex) # {}

\* ------------------------------------------------------ CachedStreamReader
MaxWritten == 4
\* the capacity of the sync_channel (100 in the source), scaled to the
\* number of lines MaxWritten bytes can hold
QUEUE_SIZE == 2
\* fill_buffer's threshold (10240 in the source), scaled likewise
READ_THRESHOLD == 2
\* a byte that no UTF-8 text holds
BAD == 255

StreamBytes == {NL, CH, BAD}

\* String::from_utf8 as read_line applies it to the bytes of a line
utf8_valid(line) == \A k \in 1..Len(line) : line[k] # BAD

\* the bytes through the first '\n', or all of them if there is none
first_line(rest) ==
    IF \E k \in 1..Len(rest) : rest[k] = NL
    THEN SubSeq(rest, 1, SetMin({k \in 1..Len(rest) : rest[k] = NL}))
    ELSE rest

\* BufRead::read_line on the unread bytes of the pipe: it returns a line
\* once its '\n' or the end of the pipe is there, Ok(0) at the end of the
\* pipe, an error for bytes that are not UTF-8, and blocks otherwise
BufRead_read_line(rest, isopen) ==
    IF first_line(rest) = <<>> THEN [kind |-> IF isopen THEN "blocked" ELSE "eof", line |-> <<>>]
    ELSE IF first_line(rest)[Len(first_line(rest))] # NL /\ isopen
         THEN [kind |-> "blocked", line |-> <<>>]
    ELSE IF ~utf8_valid(first_line(rest)) THEN [kind |-> "err", line |-> first_line(rest)]
    ELSE [kind |-> "line", line |-> first_line(rest)]

\* mutant: the channel takes records without bound
send_unbounded(q) == TRUE

\* SyncSender::send returns once the channel has room for the record
send_ready(q) == Len(q) < QUEUE_SIZE

\* the sender was dropped: the reader thread left its loop
disconnected == reader.pc = "done"

\* Receiver::try_recv / recv on the channel: the oldest record; Disconnected
\* only when no record is left and the sender is gone
try_recv(q, gone) ==
    IF q # <<>> THEN [kind |-> "ok", data |-> Head(q), queue |-> Tail(q)]
    ELSE IF gone THEN [kind |-> "disconnected", data |-> <<>>, queue |-> q]
    ELSE [kind |-> "empty", data |-> <<>>, queue |-> q]

\* mutant: the record goes in front of the buffer
buffer_prepend(buf, data) == data \o buf

\* self.buffer.append(&mut data)
buffer_append(buf, data) == buf \o data

\* CachedStreamReader::is_eof
is_eof == ~rx

\* Stream::len
stream_len == Len(buffer)

\* the variables no stream step touches
otherVars == <<idxVars, logVars, filterVars, zipVars, fault, timeVars>>

\* the producer writes a byte to the pipe
ProducerWrite ==
    /\ open /\ Len(written) < MaxWritten
    /\ \E b \in StreamBytes : written' = Append(written, b)
    /\ UNCHANGED <<open, reader, queue, buffer, rx, caller, otherVars>>

\* the producer closes the pipe
ProducerClose ==
    /\ open
    /\ open' = FALSE
    /\ UNCHANGED <<written, reader, queue, buffer, rx, caller, otherVars>>

\* the reader thread, lines 98-101: read_line returns
ThreadReadLine ==
    /\ reader.pc = "read_line"
    /\ \E r \in {BufRead_read_line(SubSeq(written, reader.taken + 1, Len(written)), open)} :
          /\ r.kind # "blocked"
          /\ reader' = IF r.kind = "line"
                       THEN [pc |-> "send", taken |-> reader.taken + Len(r.line),
                             hand |-> r.line, lines |-> reader.lines + 1]
                       ELSE [reader EXCEPT !.pc = "done"]
    /\ UNCHANGED <<written, open, queue, buffer, rx, caller, otherVars>>

\* the reader thread, line 104: tx.send(record) returns
ThreadSend ==
    /\ reader.pc = "send"
    /\ send_ready(queue)
    /\ queue' = Append(queue, reader.hand)
    /\ reader' = [reader EXCEPT !.pc = "read_line", !.hand = <<>>]
    /\ UNCHANGED <<written, open, buffer, rx, caller, otherVars>>

\* the caller takes what try_recv / recv returned
Receive(r, pc_ok) ==
    /\ queue' = r.queue
    /\ buffer' = IF r.kind = "ok" THEN buffer_append(buffer, r.data) ELSE buffer
    /\ rx' = IF r.kind = "disconnected" THEN FALSE ELSE rx
    /\ caller' = IF r.kind = "ok"
                 THEN [caller EXCEPT !.pc = pc_ok, !.received = @ + 1]
                 ELSE [caller EXCEPT !.pc = "idle"]

\* fill_buffer(pos), lines 73-74: near the end of the buffer and rx is Some,
\* so the loop is entered
FillBuffer ==
    /\ caller.pc = "idle"
    /\ \E pos \in 0..MaxWritten : pos + READ_THRESHOLD > stream_len
    /\ rx
    /\ caller' = [caller EXCEPT !.pc = "fill_buffer"]
    /\ UNCHANGED <<written, open, reader, queue, buffer, rx, otherVars>>

\* fill_buffer, lines 75-84: one round of the try_recv loop
TryRecv ==
    /\ caller.pc = "fill_buffer"
    /\ Receive(try_recv(queue, disconnected), "fill_buffer")
    /\ UNCHANGED <<written, open, reader, otherVars>>

\* wait is called with rx Some: the caller is in rx.recv()
Wait ==
    /\ caller.pc = "idle"
    /\ rx
    /\ caller' = [caller EXCEPT !.pc = "wait"]
    /\ UNCHANGED <<written, open, reader, queue, buffer, rx, otherVars>>

\* wait, lines 119-122: rx.recv() returns a record or the disconnection
WaitRecv ==
    /\ caller.pc = "wait"
    /\ try_recv(queue, disconnected).kind # "empty"
    /\ Receive(try_recv(queue, disconnected), "idle")
    /\ UNCHANGED <<written, open, reader, otherVars>>

ThreadStep == ThreadReadLine \/ ThreadSend
CallerStep == TryRecv \/ WaitRecv

InitStream == InitWith({<<>>}, {MaxChunk}, {NoFilter})
NextStream ==
    \/ ProducerWrite \/ ProducerClose
    \/ ThreadReadLine \/ ThreadSend
    \/ FillBuffer \/ TryRecv \/ Wait \/ WaitRecv
SpecStream == InitStream /\ [][NextStream]_vars

\* the reader thread and the caller are scheduled; the producer is free to
\* neither write nor close
SpecStreamFair ==
    /\ SpecStream
    /\ WF_vars(ThreadStep)
    /\ WF_vars(CallerStep)


\* the records of the channel, oldest first, as one byte sequence
RECURSIVE Concat(_)
Concat(q) == IF q = <<>> THEN <<>> ELSE Head(q) \o Concat(Tail(q))

\* C14: the buffer, followed by the queued records in channel order and by
\* the record the thread holds, is a prefix of what the producer has
\* written; across every step the old buffer is a prefix of the new one, so
\* len() never decreases and a readable byte never changes.
C14_BufferIsPrefix ==
    /\ [](/\ IsPrefix(buffer, written)
          /\ IsPrefix(buffer \o Concat(queue) \o reader.hand, written))
    /\ [][IsPrefix(buffer, buffer') /\ Len(buffer') >= stream_len]_vars

\* C14 witness: two records were appended, one by fill_buffer's loop and
\* one by wait or a later round, while the producer had written more
C14_Witness ==
    /\ caller.received >= 2
    /\ Len(buffer) >= 2 /\ Len(buffer) < Len(written)
    /\ queue # <<>>

\* C15: the channel never holds more than QUEUE_SIZE records, the thread
\* has taken at most one record more from the producer than are queued or
\* received, and while it is blocked in send on a full channel it takes
\* nothing from the producer: it stays as it is until the caller receives.
C15_Backpressure ==
    /\ [](/\ Len(queue) <= QUEUE_SIZE
          /\ reader.lines - caller.received <= QUEUE_SIZE + 1)
    /\ [][(reader.pc = "send" /\ Len(queue) = QUEUE_SIZE) =>
             (reader' = reader /\ (queue' # queue => caller'.received = caller.received + 1))]_vars

\* C15 witness: the channel is full, the thread is blocked in send with one
\* more record, and the producer has written a further line
C15_Witness ==
    /\ Len(queue) = QUEUE_SIZE /\ reader.pc = "send"
    /\ reader.taken < Len(written)

\* C16 (as claimed): a call of wait returns.
C16_WaitReturns == (caller.pc = "wait") ~> (caller.pc # "wait")

\* C17 (as claimed): is_eof() is true only when every byte the producer
\* wrote is in the buffer.
C17_EofAfterAllBytes == is_eof => buffer = written

\* the part of C17 that holds: while the pipe carries UTF-8 text, is_eof()
\* is true only when the producer has closed and every byte it wrote, an
\* unterminated last line too, is in the buffer
EofAfterAllText == (is_eof /\ utf8_valid(written)) => (~open /\ buffer = written)

\* ---------------------------------------------------------- CompressedFile
MaxFrames == 2
MaxRead == 2
\* the physical bytes of a frame header and of a block, header and content
FrameHeaderBytes == 1
BlockBytes == 1
\* decode_into_buffer's thresholds (40 KiB and 10 MiB in the source), scaled
\* to the sizes of the model's files
BUFFER_THRESHOLD_EDGE == 2
BUFFER_THRESHOLD_CAPACITY == 2
\* the decoded bytes a decoder keeps back as its window while the frame is
\* not finished
WindowBytes == 1

\* a frame: whether its header states the decompressed size, and the
\* decompressed size of each of its blocks
ZBlocks == {<<1>>, <<3>>, <<3, 3>>}
ZFrames == {[known |-> k, blocks |-> b] : k \in BOOLEAN, b \in ZBlocks}
ZFiles == SeqsUpTo(ZFrames, MaxFrames) \ {<<>>}

RECURSIVE Sum(_)
Sum(q) == IF q = <<>> THEN 0 ELSE Head(q) + Sum(Tail(q))

\* the physical and the decompressed size of a frame
frame_bytes(fr) == FrameHeaderBytes + BlockBytes * Len(fr.blocks)
frame_size(fr) == Sum(fr.blocks)

\* where frame k (1-based; Len + 1 is the end) starts in the compressed
\* file and in the decompressed stream
RECURSIVE physical_of(_, _)
physical_of(z, k) == IF k <= 1 THEN 0 ELSE physical_of(z, k - 1) + frame_bytes(z[k - 1])
RECURSIVE logical_of(_, _)
logical_of(z, k) == IF k <= 1 THEN 0 ELSE logical_of(z, k - 1) + frame_size(z[k - 1])

source_bytes == physical_of(zfile, Len(zfile) + 1)
decompressed_len == logical_of(zfile, Len(zfile) + 1)

\* the decompressed stream: the byte at a logical offset is named by that
\* offset, so bytes served from the wrong place are told apart
stream_bytes(lo, hi) == [i \in 1..(IF hi > lo THEN hi - lo ELSE 0) |-> lo + i - 1]

Breadcrumb(physical, logical, length) ==
    [physical |-> physical, logical |-> logical, len |-> length]

\* ReadBuffer: decoded bytes, the logical offset of the first of them, and
\* how many of them were consumed
ReadBuffer_new == [start |-> 0, data |-> <<>>, consumed |-> 0]
ReadBuffer_end(rb) == rb.start + Len(rb.data)
ReadBuffer_remaining(rb) == Len(rb.data) - rb.consumed
ReadBuffer_get_buffer(rb) == SubSeq(rb.data, rb.consumed + 1, Len(rb.data))
ReadBuffer_consume(rb, n) == [rb EXCEPT !.consumed = @ + n]
ReadBuffer_seek_to(rb, pos) ==
    IF rb.start <= pos /\ pos < ReadBuffer_end(rb)
    THEN [found |-> TRUE, rb |-> [rb EXCEPT !.consumed = pos - rb.start]]
    ELSE [found |-> FALSE, rb |-> rb]
ReadBuffer_extend(rb, bytes, pos) ==
    IF rb.start <= pos /\ pos <= ReadBuffer_end(rb)
    THEN [rb EXCEPT !.data = @ \o bytes, !.consumed = pos - rb.start]
    ELSE [start |-> pos, data |-> bytes, consumed |-> 0]
ReadBuffer_discard_front(rb, n) ==
    [start |-> rb.start + n, data |-> SubSeq(rb.data, n + 1, Len(rb.data)),
     consumed |-> rb.consumed - n]

\* FrameDecoder: the frame it decodes (0: none yet), its next block, whether
\* the frame is finished, and the decoded bytes not yet collected
Decomp_default == [frame |-> 0, blk |-> 1, finished |-> TRUE, out |-> <<>>]
can_collect(dec) ==
    IF dec.finished THEN Len(dec.out) ELSE Max(Len(dec.out) - WindowBytes, 0)
is_finished(dec) == dec.finished

\* the frame that starts at a physical offset, 0 if none does
frame_at(fpos) ==
    IF \E k \in 1..Len(zfile) : physical_of(zfile, k) = fpos
    THEN CHOOSE k \in 1..Len(zfile) : physical_of(zfile, k) = fpos
    ELSE 0

\* FrameDecoder::reset: read the frame header at the file position
decoder_reset(c) ==
    IF frame_at(c.file_pos) = 0 THEN [c EXCEPT !.status = "panic"]
    ELSE [c EXCEPT !.dec = [frame |-> frame_at(c.file_pos), blk |-> 1,
                            finished |-> FALSE, out |-> <<>>],
                   !.file_pos = @ + FrameHeaderBytes]

\* the logical offset of the first byte of block j of frame k
block_start(k, j) == logical_of(zfile, k) + Sum(SubSeq(zfile[k].blocks, 1, j - 1))

\* FrameDecoder::decode_blocks(.., UptoBlocks(1)): one more block
decode_blocks(c) ==
    [c EXCEPT !.dec = [frame |-> c.dec.frame, blk |-> c.dec.blk + 1,
                       finished |-> c.dec.blk = Len(zfile[c.dec.frame].blocks),
                       out |-> c.dec.out
                               \o stream_bytes(block_start(c.dec.frame, c.dec.blk),
                                               block_start(c.dec.frame, c.dec.blk + 1))],
               !.file_pos = @ + BlockBytes]

\* FrameDecoder::collect: the collectable bytes, and the decoder without them
collectable(dec) == SubSeq(dec.out, 1, can_collect(dec))
decoder_collect(c) ==
    [c EXCEPT !.dec.out = SubSeq(@, can_collect(c.dec) + 1, Len(@))]

\* mutant: the scan goes on past a frame whose header states no size
RECURSIVE scan_frames_all(_, _, _, _)
scan_frames_all(z, k, pos, fpos) ==
    IF k > Len(z) THEN <<>>
    ELSE <<Breadcrumb(fpos, pos, IF z[k].known THEN frame_size(z[k]) ELSE 0)>>
         \o scan_frames_all(z, k + 1, pos + frame_size(z[k]), fpos + frame_bytes(z[k]))

\* scan_frames: a breadcrumb for each frame whose header states its size,
\* up to and including the first frame whose header does not
RECURSIVE scan_frames(_, _, _, _)
scan_frames(z, k, pos, fpos) ==
    IF k > Len(z) THEN <<>>
    ELSE IF ~z[k].known THEN <<Breadcrumb(fpos, pos, 0)>>
    ELSE <<Breadcrumb(fpos, pos, frame_size(z[k]))>>
         \o scan_frames(z, k + 1, pos + frame_size(z[k]), fpos + frame_bytes(z[k]))

CompressedFile_new(z) ==
    [status |-> "ok", file_pos |-> 0, dec |-> Decomp_default, pos |-> 0,
     seek_pos |-> None, frames |-> scan_frames(z, 1, 0, 0), cur_crumb |-> 0,
     rb |-> ReadBuffer_new]

\* mutant: the range takes in the offset one past the frame
frame_range_inclusive(frame, p) ==
    frame.logical <= p /\ p <= frame.logical + frame.len

\* frame.logical..frame.logical+frame.len contains p
frame_range_contains(frame, p) ==
    frame.logical <= p /\ p < frame.logical + frame.len

\* Vec::binary_search_by_key on the logical offsets: Ok(n) => n, Err(n) => n - 1
frames_binary_search(frames, pos) ==
    IF \E n \in 1..Len(frames) : frames[n].logical = pos
    THEN (CHOOSE n \in 1..Len(frames) : frames[n].logical = pos) - 1
    ELSE Cardinality({n \in 1..Len(frames) : frames[n].logical < pos}) - 1

\* how far from the current breadcrumb lookup_frame_index looks first
NEARBY == 2

\* the index (0-based, as in the source) of the breadcrumb for a position
lookup_frame_index(c, pos) ==
    LET start == IF pos < c.pos THEN Max(c.cur_crumb - NEARBY, 0) ELSE c.cur_crumb
        end == IF pos > c.pos THEN Min(start + NEARBY, Len(c.frames)) ELSE c.cur_crumb
        near == {ind \in start..(end - 1) :
                    frame_range_contains(c.frames[ind + 1], pos)}
    IN  IF near # {} THEN SetMin(near) ELSE frames_binary_search(c.frames, pos)

has_file_size(c) == c.frames[Len(c.frames)].len # 0

get_length(c) ==
    LET last_frame == c.frames[Len(c.frames)]
    IN  last_frame.logical + last_frame.len
        + (IF last_frame.len > 0 THEN 0 ELSE source_bytes - last_frame.physical)

\* mutant: the frontier is closed wherever the decoder stands
end_frame_unchecked(c) ==
    LET n == Len(c.frames)
        frame == c.frames[n]
        logical_pos == c.pos + can_collect(c.dec)
    IN  IF frame.len = 0
        THEN [c EXCEPT !.frames =
                 [c.frames EXCEPT ![n].len = logical_pos - frame.logical]
                 \o (IF c.file_pos < source_bytes
                     THEN <<Breadcrumb(c.file_pos, logical_pos, 0)>> ELSE <<>>)]
        ELSE c

end_frame(c) ==
    LET n == Len(c.frames)
        frame == c.frames[n]
        logical_pos == c.pos + can_collect(c.dec)
    IN  IF frame.len = 0 /\ logical_pos > frame.logical
        THEN IF c.file_pos <= frame.physical THEN [c EXCEPT !.status = "panic"]
             ELSE [c EXCEPT !.frames =
                     [c.frames EXCEPT ![n].len = logical_pos - frame.logical]
                     \o (IF c.file_pos < source_bytes
                         THEN <<Breadcrumb(c.file_pos, logical_pos, 0)>> ELSE <<>>)]
        ELSE c

begin_frame(c) == IF c.file_pos < source_bytes THEN decoder_reset(c) ELSE c

goto_frame(c, ind) ==
    LET frame == c.frames[ind + 1]
    IN  [begin_frame([c EXCEPT !.file_pos = frame.physical,
                               !.rb = IF frame.logical # ReadBuffer_end(@)
                                      THEN ReadBuffer_new ELSE @,
                               !.pos = frame.logical])
         EXCEPT !.cur_crumb = ind]

\* more loop iterations than any call needs
Fuel == 2 * source_bytes + 2

RECURSIVE decode_more_bytes(_, _)
decode_more_bytes(c, fuel) ==
    LET decoded(d) == IF is_finished(d.dec) THEN end_frame(d) ELSE d
    IN  IF c.status # "ok" THEN c
        ELSE IF fuel = 0 THEN [c EXCEPT !.status = "hang"]
        ELSE IF can_collect(c.dec) > 0 THEN c
        ELSE IF is_finished(c.dec)
        THEN IF c.file_pos >= source_bytes THEN c
             ELSE decode_more_bytes(begin_frame(c), fuel - 1)
        ELSE decode_more_bytes(decoded(decode_blocks(c)), fuel - 1)

decode_into_buffer(c) ==
    LET trimmed(e) ==
            IF Len(e.rb.data) > BUFFER_THRESHOLD_CAPACITY * 3
               /\ e.rb.consumed >= BUFFER_THRESHOLD_CAPACITY * 2
            THEN [e EXCEPT !.rb = ReadBuffer_discard_front(@, BUFFER_THRESHOLD_CAPACITY)]
            ELSE e
        collected(d) ==
            IF d.status = "ok" /\ can_collect(d.dec) > 0
            THEN trimmed([decoder_collect(d) EXCEPT
                            !.rb = ReadBuffer_extend(@, collectable(d.dec), d.pos)])
            ELSE d
    IN  IF c.status = "ok" /\ ReadBuffer_remaining(c.rb) < BUFFER_THRESHOLD_EDGE
        THEN collected(decode_more_bytes(c, Fuel))
        ELSE c

\* skip_bytes' loop; an iteration that changes nothing repeats for ever
RECURSIVE skip_loop(_, _, _)
skip_loop(c, target, fuel) ==
    LET skipped(d) ==
            IF Min(ReadBuffer_remaining(d.rb), target - d.pos) > 0
            THEN [d EXCEPT !.pos = @ + Min(ReadBuffer_remaining(d.rb), target - d.pos),
                           !.rb = ReadBuffer_consume(@, Min(ReadBuffer_remaining(d.rb),
                                                           target - d.pos))]
            ELSE d
        again(d) ==
            IF d = c \/ fuel = 0 THEN [c EXCEPT !.status = "hang"]
            ELSE skip_loop(d, target, fuel - 1)
    IN  IF c.status # "ok" \/ c.pos >= target THEN c
        ELSE again(skipped(decode_into_buffer(c)))

skip_bytes(c, count) == skip_loop(c, c.pos + count, 4 * Fuel)

apply_seek(c) ==
    LET pos == c.seek_pos.val
        c0 == [c EXCEPT !.seek_pos = None]
        ind == lookup_frame_index(c0, pos)
        frame == c0.frames[ind + 1]
        moved(c1) == IF c1.status = "ok" /\ pos > c1.pos
                     THEN skip_bytes(c1, pos - c1.pos) ELSE c1
    IN  IF c.status # "ok" \/ c.seek_pos = None THEN c
        ELSE IF pos = c.pos THEN c0
        ELSE IF ReadBuffer_seek_to(c.rb, pos).found
        THEN [c0 EXCEPT !.rb = ReadBuffer_seek_to(c.rb, pos).rb, !.pos = pos]
        ELSE IF ind < 0 THEN [c0 EXCEPT !.status = "panic"]
        ELSE IF ~(frame_range_contains(frame, pos) \/ frame.len = 0)
        THEN [c0 EXCEPT !.status = "panic"]
        ELSE moved(IF pos < c0.pos \/ ~frame_range_contains(frame, c0.pos)
                   THEN goto_frame(c0, ind) ELSE c0)

update_stream(c) == decode_into_buffer(apply_seek(c))

\* Seek::seek(SeekFrom::Start(n))
seek(c, n) == [c EXCEPT !.seek_pos = Some(Min(n, get_length(c)))]

\* Seek::seek(SeekFrom::End(n)): todo!() panics while the last breadcrumb is
\* a frontier; otherwise the offset counts from source_bytes
seek_end(c, n) ==
    IF has_file_size(c)
    THEN [c EXCEPT !.seek_pos = Some(Min(Max(source_bytes + n, 0), get_length(c)))]
    ELSE [c EXCEPT !.status = "panic"]

\* Read::read into a buffer of n bytes: the file afterwards and the bytes
RECURSIVE read_loop(_, _, _)
read_loop(c, n, got) ==
    LET copied(d) ==
            IF d.status # "ok" THEN [c |-> d, bytes |-> got]
            ELSE IF Min(ReadBuffer_remaining(d.rb), n - Len(got)) = 0
            THEN [c |-> d, bytes |-> got]
            ELSE read_loop(
                    [d EXCEPT !.pos = @ + Min(ReadBuffer_remaining(d.rb), n - Len(got)),
                              !.rb = ReadBuffer_consume(@, Min(ReadBuffer_remaining(d.rb),
                                                              n - Len(got)))],
                    n,
                    got \o SubSeq(ReadBuffer_get_buffer(d.rb), 1,
                                  Min(ReadBuffer_remaining(d.rb), n - Len(got))))
    IN  IF Len(got) >= n THEN [c |-> c, bytes |-> got]
        ELSE copied(update_stream(c))

read(c, n) == read_loop(c, n, <<>>)

nonZipVars == <<idxVars, logVars, filterVars, streamVars, fault, timeVars>>

\* CompressedFile::new on a compressed file
ZOpen ==
    /\ cf.status = "none"
    /\ \E z \in ZFiles :
        /\ zfile' = z
        /\ cf' = CompressedFile_new(z)
        /\ zlast' = [op |-> "new", at |-> 0]
    /\ UNCHANGED nonZipVars

\* seek(SeekFrom::Start(off)); at is the offset the caller asked for and
\* to the position seek returns
ZSeek ==
    /\ cf.status = "ok"
    /\ \E off \in 0..(decompressed_len + 1) :
        /\ cf' = seek(cf, off)
        /\ zlast' = [op |-> "seek", at |-> off, to |-> Min(off, get_length(cf))]
    /\ UNCHANGED <<zfile, nonZipVars>>

\* read into a buffer of n bytes; from is the offset the bytes should be
\* those of: the last seek's, or the end of the last read
ZRead ==
    /\ cf.status = "ok"
    /\ \E n \in 1..MaxRead :
        \E r \in {read(cf, n)} :
            /\ cf' = r.c
            /\ zlast' = [op |-> "read", seeked |-> zlast.op = "seek",
                         from |-> zlast.at, n |-> n, bytes |-> r.bytes,
                         to |-> IF zlast.op = "seek" THEN zlast.to ELSE 0,
                         at |-> zlast.at + Len(r.bytes)]
    /\ UNCHANGED <<zfile, nonZipVars>>

\* seek(SeekFrom::End(n)); the record keeps whether the length was unknown
\* and what pos and the pending seek position were before the call
ZSeekEnd ==
    /\ cf.status = "ok"
    /\ \E n \in {-1, 0} :
        /\ cf' = seek_end(cf, n)
        /\ zlast' = [op |-> "seek_end", frontier |-> ~has_file_size(cf),
                     pos |-> cf.pos, seek_pos |-> cf.seek_pos,
                     at |-> Max(decompressed_len + n, 0)]
    /\ UNCHANGED <<zfile, nonZipVars>>

InitZip == InitWith({<<>>}, {MaxChunk}, {NoFilter})
NextZip == ZOpen \/ ZSeek \/ ZSeekEnd \/ ZRead
SpecZip == InitZip /\ [][NextZip]_vars

\* the bytes a read of n bytes at an offset of the decompressed stream gives
read_at(off, n) == stream_bytes(off, Min(off + n, decompressed_len))

\* C18: a read that follows seek(Start(off)) returns the bytes that a read
\* of the same length at off of the fully decompressed stream returns.
C18_SeekReadIsStream ==
    (zlast.op = "read" /\ zlast.seeked)
        => (cf.status = "ok" /\ zlast.bytes = read_at(zlast.from, zlast.n))

\* C19: get_length() never decreases from one call to the next.
C19_LengthNeverDecreases ==
    [][(cf.status = "ok" /\ cf'.status = "ok")
        => get_length(cf)' >= get_length(cf)]_vars

\* every breadcrumb is at a frame's start, holds that frame's logical offset
\* and, once it has a length, that frame's decompressed size
crumb_exact(crumb) ==
    /\ frame_at(crumb.physical) # 0
    /\ crumb.logical = logical_of(zfile, frame_at(crumb.physical))
    /\ crumb.len # 0 => crumb.len = frame_size(zfile[frame_at(crumb.physical)])

\* the decoder finished the frame of the last breadcrumb
frontier_decoded ==
    /\ cf.status = "ok"
    /\ cf.dec.frame # 0
    /\ cf.dec.finished
    /\ cf.frames[Len(cf.frames)].physical = physical_of(zfile, cf.dec.frame)

\* C20: once the decoder finished the frontier frame, its breadcrumb has the
\* frame's exact decompressed size, and every breadcrumb, a new frontier
\* included, has its frame's exact logical offset.
C20_EndFrameIsExact ==
    cf.status = "ok" =>
        /\ \A i \in 1..Len(cf.frames) : crumb_exact(cf.frames[i])
        /\ frontier_decoded => cf.frames[Len(cf.frames)].len # 0

\* C21: seek(SeekFrom::End(n)) while the last breadcrumb is a frontier
\* returns (the file is still usable) and leaves pos and the pending seek
\* position as they were.
C21_SeekEndRejected ==
    (zlast.op = "seek_end" /\ zlast.frontier)
        => /\ cf.status = "ok"
           /\ cf.pos = zlast.pos
           /\ cf.seek_pos = zlast.seek_pos

\* ------------------------------------------------ a source whose read fails
\* index_chunk gets as far as reading the source for this gap
index_chunk_reads(gap) ==
    LET offset == gap.off
        start  == gap.lo
        end    == Min(gap.hi, len)
    IN  /\ start <= offset
        /\ start < end
        /\ Max(start, chunk(offset)[1]) <= offset
        /\ offset <= Min(end, chunk(offset)[2])

\* Result::expect
expect(read_ok) == IF read_ok THEN "ok" ELSE "panic"

\* what a next / next_back from pos comes to when the source's reads succeed
\* or not: index_chunk expects parse_bufread's result, the data iterator
\* expects read_line's; "none": the call reads nothing
next_outcome(idx, pos, read_ok) ==
    LET resolved(p) ==
            IF is_gap(p) /\ index_chunk_reads(p) THEN expect(read_ok)
            ELSE IF offset_of(p).some THEN expect(read_ok)
            ELSE "none"
    IN  resolved(resolve(idx, pos, len))

\* what the failed call leaves behind
Failing(op, outcome) ==
    /\ outcome # "none"
    /\ fault' = [op |-> op, outcome |-> outcome, it |-> it]
    /\ panicked' = (outcome = "panic")

\* it.next() during which the source's read fails
IterNextFault ==
    /\ ~panicked
    /\ run.iters >= 1
    /\ Failing("next", next_outcome(index, it.pos, FALSE))
    /\ UNCHANGED <<file, index, hist, last, logVars, filterVars, streamVars, zipVars, timeVars>>

\* it.next_back() during which the source's read fails
IterNextBackFault ==
    /\ ~panicked
    /\ run.iters >= 1
    /\ Failing("next_back", next_outcome(index, it.rev_pos, FALSE))
    /\ UNCHANGED <<file, index, hist, last, logVars, filterVars, streamVars, zipVars, timeVars>>

NextFault == NewIterator \/ IterNext \/ IterNextBack \/ IterNextFault \/ IterNextBackFault
SpecFault == InitLog /\ [][NextFault]_vars

\* C22: a next or next_back during which a read of the source fails returns
\* an error to its caller and leaves the iterator where it was; the process
\* is not aborted.
C22_ReadErrorSurfaces ==
    fault.op # "none"
        => (fault.outcome = "err" /\ ~panicked /\ it = fault.it)

\* C23: on one iterator no line is yielded twice, by next, by next_back or
\* by one after the other.
C23_YieldedAtMostOnce ==
    \A i, j \in 1..Len(run.fwd \o run.rev) :
        i # j => (run.fwd \o run.rev)[i] # (run.fwd \o run.rev)[j]

\* a whole pass of a fresh iterator over the log as the index stands: the
\* offsets it yields up to its first None (-1: the pass failed)
RECURSIVE drain(_, _, _, _)
drain(idx, iter, back, fuel) ==
    LET more(r) ==
            IF ~r.ok \/ fuel = 0 THEN <<-1>>
            ELSE IF ~r.ret.some THEN <<>>
            ELSE <<r.ret.val>> \o drain(r.index, r.iter, back, fuel - 1)
    IN  more(IF back THEN LineIndexerIterator_next_back(idx, iter)
             ELSE LineIndexerIterator_next(idx, iter))

fresh_pass(idx) == drain(idx, LineIndexerIterator_new, FALSE, len + 2)
fresh_pass_back(idx) == drain(idx, LineIndexerIterator_new, TRUE, len + 2)

NewIteratorFrom ==
    /\ ~panicked
    /\ run.iters < MaxIters
    /\ \E offset \in 0..(len + 2) :
        /\ it' = LineIndexerIterator_new_from(offset)
        /\ run' = [NoRun EXCEPT !.iters = run.iters + 1, !.from = Some(offset)]
    /\ UNCHANGED <<idxVars, chunk_size, filterVars, sourcesVars>>

NextFrom == NewIteratorFrom \/ IterNext \/ IterNextBack
SpecFrom == InitLog /\ [][NextFrom]_vars

\* the lines that start below an offset, last first
LinesBelow(o) == Reverse(SelectSeq(Truth, LAMBDA l : l[1] < o))

RECURSIVE chunks_read(_, _, _)
chunks_read(idx, pos, rounds) ==
    LET again(r) ==
            (IF index_chunk_reads(pos) THEN 1 ELSE 0)
            + (IF ~r.ok THEN 0 ELSE chunks_read(r.index, r.pos, rounds - 1))
    IN  IF ~is_gap(pos) \/ rounds = 0 THEN 0
        ELSE again(index_chunk(idx, pos))

\* the chunks a next or next_back from a cursor reads, the index being idx
call_reads(idx, pos) == chunks_read(idx, resolve(idx, pos, len), len + 2)

\* the step is a call of next / of next_back on the current iterator
NextCalled ==
    run'.iters = run.iters /\ (run'.fwd # run.fwd \/ run'.fwdDone # run.fwdDone)
NextBackCalled ==
    run'.iters = run.iters /\ (run'.rev # run.rev \/ run'.revDone # run.revDone)

\* C26: one call of next or next_back reads and parses at most one chunk
\* of the source.
C26_OneChunkPerCall ==
    [][/\ NextCalled => call_reads(index, it.pos) <= 1
       /\ NextBackCalled => call_reads(index, it.rev_pos) <= 1]_vars

\* C27: for every target below the source's length, chunk(target) is a
\* window lo..hi with lo <= target < hi <= len of at most chunk_size
\* bytes, and no assertion of the indexer on the clipped chunk has failed.
C27_ChunkHoldsTarget ==
    /\ \A target \in 0..(len - 1) :
          /\ chunk(target)[1] <= target
          /\ target < chunk(target)[2]
          /\ chunk(target)[2] <= len
          /\ chunk(target)[2] - chunk(target)[1] <= chunk_size
    /\ ~panicked

\* C27 witness: the source is longer than a chunk, the window of some
\* target touches neither end of the source, and a gap has been resolved
\* through index_chunk.
C27_Witness ==
    /\ len > chunk_size
    /\ \E target \in 0..(len - 1) : chunk(target)[1] > 0 /\ chunk(target)[2] < len
    /\ run.fwd # <<>> /\ run.rev # <<>>
    /\ ~panicked

\* C28: over an empty source the index counts no line and a fresh forward
\* pass yields none, whatever has been parsed, an empty chunk at offset 0
\* included.
C28_EmptySource ==
    len = 0 => (count_lines(index) = 0 /\ fresh_pass(index) = <<>>)


\* every IndexIndex that names a waypoint of the index
valid_indexes(idx) ==
    UNION {{<<i - 1, j - 1>> : j \in 1..Len(idx[i])} : i \in 1..Len(idx)}

\* ndx comes before other in the order of the index
index_before(ndx, other) ==
    \/ ndx[1] < other[1]
    \/ ndx[1] = other[1] /\ ndx[2] < other[2]

\* the offsets search is asked for: every byte of the source and past its end
SearchOffsets == 0..(len + 1)

\* C29: search(off) returns the last waypoint whose comparison offset is at
\* or before off, and the Unmapped region that holds off when off lies
\* strictly inside one.
C29_SearchAtOrBefore ==
    ~panicked =>
        \A off \in SearchOffsets : \A ndx \in search(index, off) :
            /\ index_valid(index, ndx)
            /\ cmp_offset(value(index, ndx)) <= off
            /\ \A other \in valid_indexes(index) :
                  index_before(ndx, other) => cmp_offset(value(index, other)) > off
            /\ \A other \in valid_indexes(index) :
                  LET w == value(index, other)
                  IN  (~is_mapped(w) /\ w.lo < off /\ off < w.hi) => value(index, ndx) = w

\* search(off) returns a waypoint that contains off when there is one, and
\* otherwise the first waypoint that starts after off, where a waypoint for
\* off would be inserted.
C29_SearchHoldingOrNext ==
    ~panicked =>
        \A off \in SearchOffsets : \A ndx \in search(index, off) :
            /\ index_valid(index, ndx)
            /\ IF \E other \in valid_indexes(index) : contains(value(index, other), off)
               THEN contains(value(index, ndx), off)
               ELSE /\ cmp_offset(value(index, ndx)) > off
                    /\ \A other \in valid_indexes(index) :
                          index_before(other, ndx) => cmp_offset(value(index, other)) < off

C29_Witness ==
    /\ ~panicked
    /\ last.op = "parse_chunk"
    /\ \E off \in SearchOffsets :
          /\ \A other \in valid_indexes(index) : ~contains(value(index, other), off)
          /\ \E ndx \in search(index, off) : cmp_offset(value(index, ndx)) > off
    /\ \E off \in SearchOffsets : \E ndx \in search(index, off) :
          LET w == value(index, ndx) IN ~is_mapped(w) /\ w.lo < off /\ off < w.hi

\* C30: after any parse_chunk calls the last waypoint of the index is an
\* Unmapped region that extends to IMAX; at first it is the only waypoint.
C30_TailIsUnmapped ==
    \E ws \in {Flat(index)} :
        /\ Len(ws) >= 1
        /\ ~is_mapped(ws[Len(ws)])
        /\ end_offset(ws[Len(ws)]) = IMAX
        /\ (hist.calls = 0 => ws = <<Unmapped(0, IMAX)>>)

C30_Witness ==
    /\ ~panicked
    /\ last.op = "parse_chunk"
    /\ hist.covered = 0..(len - 1)
    /\ len = MaxLen
    /\ Flat(index)[Len(Flat(index))] = Unmapped(len, IMAX)


\* C31: the breadcrumbs of a CompressedFile are strictly increasing in
\* logical offset, after scan_frames and after every seek and read.
C31_CrumbsIncrease ==
    cf.status # "none" =>
        \A i \in 1..Len(cf.frames) : \A j \in 1..Len(cf.frames) :
            i < j => cf.frames[i].logical < cf.frames[j].logical

\* a read ended a frontier frame and pushed the breadcrumb of the next frame
C31_Witness ==
    /\ cf.status = "ok"
    /\ zlast.op = "read"
    /\ Len(cf.frames) > Len(scan_frames(zfile, 1, 0, 0))
    /\ Len(cf.frames) = MaxFrames

\* C32: at most one breadcrumb is a frontier (len = 0), and it is the last
\* one.
C32_FrontierIsLast ==
    cf.status # "none" =>
        \A i \in 1..Len(cf.frames) : cf.frames[i].len = 0 => i = Len(cf.frames)

\* end_frame filled in a frontier's length and pushed a new frontier
C32_Witness ==
    /\ cf.status = "ok"
    /\ zlast.op = "read"
    /\ Len(cf.frames) = 2
    /\ Len(scan_frames(zfile, 1, 0, 0)) = 1
    /\ cf.frames[1].len > 0
    /\ cf.frames[2].len = 0


\* ------------------------------------------------- CompressedFile, by state
\* The same operations, recording only which one ran last: the states are
\* those of the file itself.

\* the longest decompressed stream opened here
MaxStream == 6

\* CompressedFile::new on a compressed file of at most MaxStream bytes
OpenFile ==
    /\ cf.status = "none"
    /\ \E z \in ZFiles :
        /\ logical_of(z, Len(z) + 1) <= MaxStream
        /\ zfile' = z
        /\ cf' = CompressedFile_new(z)
        /\ zlast' = [op |-> "new"]
    /\ UNCHANGED nonZipVars

\* seek(SeekFrom::Start(off))
SeekStart ==
    /\ cf.status = "ok"
    /\ \E off \in 0..(decompressed_len + 1) : cf' = seek(cf, off)
    /\ zlast' = [op |-> "seek"]
    /\ UNCHANGED <<zfile, nonZipVars>>

\* read into a buffer of n bytes
ReadInto ==
    /\ cf.status = "ok"
    /\ \E n \in 1..MaxRead : cf' = read(cf, n).c
    /\ zlast' = [op |-> "read"]
    /\ UNCHANGED <<zfile, nonZipVars>>

NextCrumbs == OpenFile \/ SeekStart \/ ReadInto
SpecCrumbs == InitZip /\ [][NextCrumbs]_vars

\* C33: for every offset below get_length(), whatever cur_crumb and the
\* current position are, lookup_frame_index returns the breadcrumb whose
\* range holds the offset (the last one for an offset in the frontier),
\* which is the answer of the binary search alone.  The current position
\* enters only by its order with the target: below it, at it, above it.
C33_LookupFindsHolder ==
    cf.status = "ok" =>
        \E length \in {get_length(cf)} :
        \A target \in 0..(length - 1) :
        \A crumb \in 0..(Len(cf.frames) - 1) :
        \A at \in {Max(target - 1, 0), target, target + 1} :
            \E ind \in {lookup_frame_index([cf EXCEPT !.cur_crumb = crumb, !.pos = at], target)} :
                /\ ind \in 0..(Len(cf.frames) - 1)
                /\ ind = frames_binary_search(cf.frames, target)
                /\ cf.frames[ind + 1].logical <= target
                /\ \/ target < cf.frames[ind + 1].logical + cf.frames[ind + 1].len
                   \/ ind = Len(cf.frames) - 1 /\ cf.frames[ind + 1].len = 0

\* the shortcut answers: the file stands in its second breadcrumb, found by
\* reading, and a target in the first one is not where the file is
C33_Witness ==
    /\ cf.status = "ok"
    /\ zlast.op = "read"
    /\ Len(cf.frames) = 2
    /\ Len(scan_frames(zfile, 1, 0, 0)) = 1
    /\ cf.cur_crumb = 1
    /\ \E target \in 0..(cf.pos - 1) :
          /\ lookup_frame_index(cf, target) = 0
          /\ target < cf.frames[1].len

\* ---------------------------------------------------- Timeout, by state
\* the longest duration set and the last instant of the clock
MaxDur == 2
MaxTime == 4

nonTimeVars == <<idxVars, logVars, filterVars, streamVars, zipVars, fault>>

\* set(limit), as TimeoutWrapper::new and its drop call it through
\* set_timeout; limit and latched belong to the Timeout as last set
TimeoutSet ==
    /\ \E limit \in {None} \cup {Some(d) : d \in 0..MaxDur} :
        /\ timeout' = Timeout_set(limit, now)
        /\ tcall' = [op |-> "set", limit |-> limit, latched |-> FALSE]
    /\ UNCHANGED <<now, nonTimeVars>>

\* is_timed_out(); latched: it has returned true since the last set
IsTimedOut ==
    /\ timeout' = is_timed_out(timeout, now)
    /\ tcall' = [op |-> "is_timed_out", limit |-> tcall.limit,
                 was |-> tcall.latched, result |-> timed_out(timeout'),
                 latched |-> tcall.latched \/ timed_out(timeout')]
    /\ UNCHANGED <<now, nonTimeVars>>

\* timed_out() through &self; before is the Timeout it was called on
TimedOut ==
    /\ tcall' = [op |-> "timed_out", limit |-> tcall.limit,
                 was |-> tcall.latched, result |-> timed_out(timeout),
                 latched |-> tcall.latched, before |-> timeout]
    /\ UNCHANGED <<timeout, now, nonTimeVars>>

\* the monotonic clock advances
Tick ==
    /\ now < MaxTime
    /\ now' = now + 1
    /\ UNCHANGED <<timeout, tcall, nonTimeVars>>

InitTimeout == InitWith({<<>>}, {MaxChunk}, {NoFilter})
NextTimeout == TimeoutSet \/ IsTimedOut \/ TimedOut \/ Tick
SpecTimeout == InitTimeout /\ [][NextTimeout]_vars

\* C34: once is_timed_out() has returned true, timed_out() and
\* is_timed_out() return true until set() is called; a Timeout last set
\* with None (or never set) does not report timed out; and timed_out()
\* leaves the Timeout as it is.
C34_Latching ==
    /\ tcall.op \in {"timed_out", "is_timed_out"} =>
          /\ tcall.was => tcall.result
          /\ ~tcall.limit.some => ~tcall.result
    /\ tcall.latched => timed_out(timeout)
    /\ tcall.op = "timed_out" => timeout = tcall.before

\* the latch was set by an earlier call and a later call reports it
C34_Witness ==
    /\ tcall.op = "timed_out"
    /\ tcall.was
    /\ tcall.result
    /\ tcall.limit.some
    /\ now > tcall.limit.val + 1


\* ------------------------------------------- insert outside the unexplored
\* the range lies wholly inside one Unmapped region of the index
in_one_unmapped(idx, range) ==
    \E ndx \in valid_indexes(idx) :
        /\ ~is_mapped(value(idx, ndx))
        /\ cmp_offset(value(idx, ndx)) <= range.start
        /\ range.end <= end_offset(value(idx, ndx))

\* index.parse_chunk(lo, &file[lo..hi]) with a range that no single
\* Unmapped region holds: a chunk parsed again, or one that reaches into
\* explored bytes; gap_ok: resolve_gap returned, so the index was spliced;
\* again: every byte of the chunk was parsed before
Reparse ==
    /\ ~panicked
    /\ \E lo \in 0..Len(file) : \E hi \in lo..Len(file) :
        /\ ~in_one_unmapped(index, Range(lo, hi))
        /\ \E g \in resolve_gap(index, Range(lo, hi)) :
           \E r \in {insert_from(g, chunk_offsets(lo, Slice(file, lo, hi)), Range(lo, hi))} :
              /\ index' = IF r.ok THEN r.index ELSE IF g.ok THEN g.index ELSE index
              /\ panicked' = ~r.ok
              /\ last' = [op |-> "reparse", gap_ok |-> g.ok, before |-> index,
                          again |-> lo < hi /\ lo..(hi - 1) \subseteq hist.covered]
    /\ UNCHANGED <<file, hist, logVars, filterVars, sourcesVars>>

NextReparse == ParseChunk \/ Reparse
SpecReparse == Init /\ [][NextReparse]_vars

\* C35: insert with a range that is not wholly inside one Unmapped region
\* fails an assertion of resolve_gap, and the index is as it was.
C35_ReinsertFails ==
    last.op = "reparse" =>
        /\ panicked
        /\ ~last.gap_ok
        /\ index = last.before

\* a chunk parsed a second time
C35_Witness ==
    /\ last.op = "reparse"
    /\ panicked
    /\ last.again
    /\ hist.calls = 1


\* ------------------------------------------------------- nth and nth_back
\* the largest n handed to nth and nth_back
MaxNth == 1

\* k successive next() calls (next_back() calls if back): the index and
\* the iterator afterwards and what the last call returned; a call that
\* returns None ends them
RECURSIVE next_times(_, _, _, _)
next_times(idx, iter, back, k) ==
    LET more(r) ==
            IF ~r.ok \/ ~r.ret.some \/ k = 1 THEN r
            ELSE next_times(r.index, r.iter, back, k - 1)
    IN  more(IF back THEN LineIndexerIterator_next_back(idx, iter)
             ELSE LineIndexerIterator_next(idx, iter))

\* advance_by and advance_back_by: n lines are passed over, or the
\* iterator runs out (ret is None then)
advance_by(idx, iter, back, n) ==
    IF n = 0 THEN [ok |-> TRUE, index |-> idx, iter |-> iter, ret |-> Some(0)]
    ELSE next_times(idx, iter, back, n)

\* Iterator::nth, lines 185-188: advance_by(n), then self.next_back()
nth(idx, iter, n) ==
    LET then(a) == IF ~a.ok \/ ~a.ret.some THEN [a EXCEPT !.ret = None]
                   ELSE LineIndexerIterator_next_back(a.index, a.iter)
    IN  then(advance_by(idx, iter, FALSE, n))

\* DoubleEndedIterator::nth_back, lines 169-172
nth_back(idx, iter, n) ==
    LET then(a) == IF ~a.ok \/ ~a.ret.some THEN [a EXCEPT !.ret = None]
                   ELSE LineIndexerIterator_next_back(a.index, a.iter)
    IN  then(advance_by(idx, iter, TRUE, n))

\* one call of nth or nth_back; the record keeps the index and the
\* iterator it was called on
NthCall(op, n, r) ==
    /\ index' = r.index
    /\ it' = r.iter
    /\ panicked' = ~r.ok
    /\ last' = [op |-> op, n |-> n, ret |-> r.ret, index |-> index, iter |-> it]
    /\ UNCHANGED <<file, hist, chunk_size, run, filterVars, sourcesVars>>

\* it.nth(n)
IterNth ==
    /\ ~panicked
    /\ run.iters >= 1
    /\ \E n \in 0..MaxNth : NthCall("nth", n, nth(index, it, n))

\* it.nth_back(n)
IterNthBack ==
    /\ ~panicked
    /\ run.iters >= 1
    /\ \E n \in 0..MaxNth : NthCall("nth_back", n, nth_back(index, it, n))

NextNth == NewIterator \/ IterNth \/ IterNthBack
SpecNth == InitLog /\ [][NextNth]_vars

\* C36: nth(n) returns what the last of n + 1 next() calls returns and
\* leaves the reverse cursor where it was; nth_back(n) returns what the
\* last of n + 1 next_back() calls returns and leaves the forward cursor.
C36_NthIsRepeatedNext ==
    /\ (last.op = "nth" /\ ~panicked) =>
          /\ last.ret = next_times(last.index, last.iter, FALSE, last.n + 1).ret
          /\ it.rev_pos = last.iter.rev_pos
    /\ (last.op = "nth_back" /\ ~panicked) =>
          /\ last.ret = next_times(last.index, last.iter, TRUE, last.n + 1).ret
          /\ it.pos = last.iter.pos


\* C37: the read that follows a seek to any position up to get_length(),
\* the end of a fully sized file included, fails no assertion, and returns
\* no bytes when the position is the end of the data.
C37_ReadAfterSeekCompletes ==
    (zlast.op = "read" /\ zlast.seeked) =>
        /\ cf.status # "panic"
        /\ (cf.status = "ok" /\ zlast.to = decompressed_len) => zlast.bytes = <<>>


\* C38: apply_seek and skip_bytes return for every target seek accepts,
\* targets past the real length under an estimated get_length() included.
C38_SeekTerminates ==
    zlast.op = "read" => cf.status # "hang"


\* C40: over a file every frame of which states its size, seek(End(n))
\* sets the position n from the end of the decompressed stream, kept
\* within 0 and the decompressed length.
C40_SeekEndIsLogical ==
    (zlast.op = "seek_end" /\ \A k \in 1..Len(zfile) : zfile[k].known) =>
        /\ cf.status = "ok"
        /\ cf.seek_pos = Some(zlast.at)

\* ------------------------------------------- fill_buffer, call by call
\* fill_buffer(pos) as read calls it, entering the loop; since: the
\* records received before this call
FillBufferCall ==
    /\ caller.pc = "idle"
    /\ \E pos \in 0..MaxWritten : pos + READ_THRESHOLD > stream_len
    /\ rx
    /\ caller' = [pc |-> "fill_buffer", received |-> caller.received,
                  since |-> caller.received]
    /\ UNCHANGED <<written, open, reader, queue, buffer, rx, otherVars>>

NextFill ==
    \/ ProducerWrite \/ ProducerClose
    \/ ThreadReadLine \/ ThreadSend
    \/ FillBufferCall \/ TryRecv
SpecFill == InitStream /\ [][NextFill]_vars

\* C39: a call of fill_buffer receives a bounded number of records, however
\* fast the thread refills the channel: no more than the channel holds and
\* the thread has in hand.
C39_FillBufferBounded ==
    caller.pc = "fill_buffer" => caller.received - caller.since <= QUEUE_SIZE + 1
====
